---- MODULE Spec2Model ----
(***************************************************************************)
(* The publishing state machine of one server-side OPC UA subscription     *)
(* (server/src/subscriptions/subscription.rs): tick, tick_monitored_items, *)
(* update_state, the lifetime and keep-alive counters, the sequence-number *)
(* accounting, and the monitored-item services of the subscription.        *)
(***************************************************************************)
EXTENDS Integers, Sequences, FiniteSets, TLC

(***************************************************************************)
(* Program constants.                                                      *)
(***************************************************************************)
\* std::u32::MAX, the largest u32: the last sequence number before the wrap to
\* 1, and what 0 - 1 wraps to.  TLC's integers are 32-bit signed and cannot hold
\* 4294967295, so the model runs the same arithmetic on a narrower unsigned
\* integer; MAX_U32 is that integer's largest value.
MAX_U32 == 3

(***************************************************************************)
(* Bounds of the model.                                                    *)
(***************************************************************************)
\* max_lifetime_count is drawn from 1..MaxLifetime.
MaxLifetime == 3
\* max_keep_alive_count is drawn from 1..MaxKeepAlive.
MaxKeepAlive == 2
\* publishing_interval is drawn from 1..MaxInterval (time units), and the time
\* between two calls of tick from 0..MaxInterval.
MaxInterval == 1
\* Monitored-item ids 1..MaxItemId can be allocated.
MaxItemId == 2
\* queue_size of a monitored item is drawn from 1..MaxQueue.
MaxQueue == 1
\* A service request holds at most MaxBatch entries.
MaxBatch == 1
\* max_browse_continuation_points is drawn from 1..MaxPoints.
MaxPoints == 3
\* Continuation-point ids are drawn from 1..MaxPointId.
MaxPointId == 3
\* remove_browse_continuation_points is given at most MaxPointBatch ids.
MaxPointBatch == 2
\* The address space changes at most MaxVersion times.
MaxVersion == 1
\* set_terminated is called at a time in 1..MaxTime (the session is made at
\* time 0).
MaxTime == 2
\* A session has at most MaxSubscriptions subscriptions.
MaxSubscriptions == 1
\* Sessions are made by the threads 1..Threads, at most MaxSessions in all.
Threads == 2
MaxSessions == 3

Min(a, b) == IF a <= b THEN a ELSE b

RECURSIVE Flatten(_)
Flatten(ss) == IF ss = <<>> THEN <<>> ELSE Head(ss) \o Flatten(Tail(ss))

\* All orderings of the finite set S, as sequences without repetition.
Orders(S) ==
    { o \in [1..Cardinality(S) -> S] : \A i, j \in 1..Cardinality(S) : o[i] = o[j] => i = j }

(***************************************************************************)
(* Types of the source.                                                    *)
(***************************************************************************)
SubscriptionState == {"Closed", "Creating", "Normal", "Late", "KeepAlive"}

TickReason == {"ReceivedPublishRequest", "TickTimerFired"}

UpdateStateAction == {"None", "ReturnKeepAlive", "ReturnNotifications"}

HandledState ==
    {"None0", "Closed1", "Create3", "Normal4", "Normal5", "IntervalElapsed6",
     "IntervalElapsed7", "IntervalElapsed8", "IntervalElapsed9", "Late10", "Late11",
     "Late12", "KeepAlive13", "KeepAlive14", "KeepAlive15", "KeepAlive16", "KeepAlive17"}

SubscriptionStateParams(notifications_available, more_notifications, publishing_req_queued, publishing_interval_elapsed) ==
    [notifications_available |-> notifications_available,
     more_notifications |-> more_notifications,
     publishing_req_queued |-> publishing_req_queued,
     publishing_interval_elapsed |-> publishing_interval_elapsed]

\* What update_state hands back, with the subscription it leaves behind.
\* panicked: the call ended in a panic and sub is the state at that point.
UpdateStateResult(sub, handled_state, update_state_action) ==
    [sub |-> sub, handled_state |-> handled_state,
     update_state_action |-> update_state_action, panicked |-> FALSE]

UpdateStatePanic(sub) ==
    [sub |-> sub, handled_state |-> "None0", update_state_action |-> "None",
     panicked |-> TRUE]

(***************************************************************************)
(* Notification messages.                                                  *)
(***************************************************************************)
NoMessage == [kind |-> "None", sequence_number |-> 0, notifications |-> <<>>]

data_change(sequence_number, notifications) ==
    [kind |-> "DataChange", sequence_number |-> sequence_number,
     notifications |-> notifications]

keep_alive(sequence_number) ==
    [kind |-> "KeepAlive", sequence_number |-> sequence_number, notifications |-> <<>>]

(***************************************************************************)
(* Counters of the subscription.  s is the Subscription record.            *)
(***************************************************************************)
reset_keep_alive_counter(s) ==
    [s EXCEPT !.current_keep_alive_count = s.max_keep_alive_count]

reset_lifetime_counter(s) ==
    [s EXCEPT !.current_lifetime_count = s.max_lifetime_count]

\* A variant of start_publishing_timer that leaves the lifetime counter alone.
start_publishing_timer_not_counting(s, overflow_checks) == s

\* current_lifetime_count -= 1 on a u32.  At 0 the subtraction overflows: a
\* build with overflow checks panics there (the counter is left as it was), a
\* build without them wraps to MAX_U32.  s.panicked marks the first outcome.
start_publishing_timer(s, overflow_checks) ==
    IF s.current_lifetime_count = 0
    THEN IF overflow_checks
         THEN [s EXCEPT !.panicked = TRUE]
         ELSE [s EXCEPT !.current_lifetime_count = MAX_U32]
    ELSE [s EXCEPT !.current_lifetime_count = s.current_lifetime_count - 1]

\* The statements of a state-table row that follow start_publishing_timer run
\* only when it did not panic.
Unless(s1, s2) == IF s1.panicked THEN s1 ELSE s2

(***************************************************************************)
(* update_state, one operator per state of the match.                      *)
(***************************************************************************)
\* A variant of update_state_Closed that answers the timer of a closed
\* subscription with a keep-alive.
update_state_Closed_keep_alive(s) == UpdateStateResult(s, "Closed1", "ReturnKeepAlive")

\* State #1.
update_state_Closed(s) == UpdateStateResult(s, "Closed1", "None")

\* A variant of update_state_Creating that starts the publishing timer, as the
\* rows of Normal do.
update_state_Creating_starting_timer(s) ==
    UpdateStateResult(
        start_publishing_timer([s EXCEPT !.state = "Normal", !.message_sent = FALSE], TRUE),
        "Create3", "None")

\* State #3.
update_state_Creating(s) ==
    UpdateStateResult([s EXCEPT !.state = "Normal", !.message_sent = FALSE],
                      "Create3", "None")

update_state_Normal(s, tick_reason, p, overflow_checks) ==
    IF tick_reason = "ReceivedPublishRequest"
    THEN IF ~s.publishing_enabled \/ (s.publishing_enabled /\ ~p.more_notifications)
         THEN UpdateStateResult(s, "Normal4", "None")
         ELSE IF s.publishing_enabled /\ p.more_notifications
         THEN UpdateStateResult(
                  [reset_lifetime_counter(s) EXCEPT !.message_sent = TRUE],
                  "Normal5", "ReturnNotifications")
         ELSE UpdateStateResult(s, "None0", "None")
    ELSE IF p.publishing_interval_elapsed
    THEN IF p.publishing_req_queued /\ s.publishing_enabled /\ p.notifications_available
         THEN LET s1 == start_publishing_timer(reset_lifetime_counter(s), overflow_checks)
              IN  UpdateStateResult(Unless(s1, [s1 EXCEPT !.message_sent = TRUE]),
                                    "IntervalElapsed6", "ReturnNotifications")
         ELSE IF /\ p.publishing_req_queued
                 /\ ~s.message_sent
                 /\ (\/ ~s.publishing_enabled
                     \/ (s.publishing_enabled /\ ~p.notifications_available))
         THEN LET s1 == start_publishing_timer(reset_lifetime_counter(s), overflow_checks)
              IN  UpdateStateResult(Unless(s1, [s1 EXCEPT !.message_sent = TRUE]),
                                    "IntervalElapsed7", "ReturnKeepAlive")
         ELSE IF /\ ~p.publishing_req_queued
                 /\ (\/ ~s.message_sent
                     \/ (s.publishing_enabled /\ p.notifications_available))
         THEN LET s1 == start_publishing_timer(s, overflow_checks)
              IN  UpdateStateResult(Unless(s1, [s1 EXCEPT !.state = "Late"]),
                                    "IntervalElapsed8", "None")
         ELSE IF /\ s.message_sent
                 /\ (\/ ~s.publishing_enabled
                     \/ (s.publishing_enabled /\ ~p.notifications_available))
         THEN LET s1 == start_publishing_timer(s, overflow_checks)
              IN  UpdateStateResult(
                      Unless(s1, [reset_keep_alive_counter(s1) EXCEPT !.state = "KeepAlive"]),
                      "IntervalElapsed9", "None")
         ELSE UpdateStateResult(s, "None0", "None")
    ELSE UpdateStateResult(s, "None0", "None")

\* A variant of update_state_Late whose row #11 forgets message_sent.
update_state_Late_forgetting_message_sent(s, tick_reason, p, overflow_checks) ==
    IF tick_reason = "ReceivedPublishRequest"
    THEN IF s.publishing_enabled /\ (p.notifications_available \/ p.more_notifications)
         THEN UpdateStateResult(
                  [reset_lifetime_counter(s) EXCEPT !.state = "Normal", !.message_sent = TRUE],
                  "Late10", "ReturnNotifications")
         ELSE UpdateStateResult([reset_lifetime_counter(s) EXCEPT !.state = "KeepAlive"],
                                "Late11", "ReturnKeepAlive")
    ELSE IF p.publishing_interval_elapsed
    THEN UpdateStateResult(start_publishing_timer(s, overflow_checks), "Late12", "None")
    ELSE UpdateStateResult(s, "None0", "None")

update_state_Late(s, tick_reason, p, overflow_checks) ==
    IF tick_reason = "ReceivedPublishRequest"
    THEN IF s.publishing_enabled /\ (p.notifications_available \/ p.more_notifications)
         THEN UpdateStateResult(
                  [reset_lifetime_counter(s) EXCEPT !.state = "Normal", !.message_sent = TRUE],
                  "Late10", "ReturnNotifications")
         ELSE IF \/ ~s.publishing_enabled
                 \/ (/\ s.publishing_enabled
                     /\ ~p.notifications_available
                     /\ ~p.more_notifications)
         THEN UpdateStateResult(
                  [reset_lifetime_counter(s) EXCEPT !.state = "KeepAlive", !.message_sent = TRUE],
                  "Late11", "ReturnKeepAlive")
         ELSE UpdateStateResult(s, "None0", "None")
    ELSE IF p.publishing_interval_elapsed
    THEN UpdateStateResult(start_publishing_timer(s, overflow_checks), "Late12", "None")
    ELSE UpdateStateResult(s, "None0", "None")

update_state_KeepAlive(s, tick_reason, p, overflow_checks) ==
    IF tick_reason = "ReceivedPublishRequest"
    THEN UpdateStateResult(s, "KeepAlive13", "None")
    ELSE IF p.publishing_interval_elapsed
    THEN IF s.publishing_enabled /\ p.notifications_available /\ p.publishing_req_queued
         THEN UpdateStateResult([s EXCEPT !.message_sent = TRUE, !.state = "Normal"],
                                "KeepAlive14", "ReturnNotifications")
         ELSE IF /\ p.publishing_req_queued
                 /\ s.current_keep_alive_count = 1
                 /\ (\/ ~s.publishing_enabled
                     \/ (s.publishing_enabled /\ p.notifications_available))
         THEN LET s1 == start_publishing_timer(s, overflow_checks)
              IN  UpdateStateResult(Unless(s1, reset_keep_alive_counter(s1)),
                                    "KeepAlive15", "ReturnKeepAlive")
         ELSE IF /\ s.current_keep_alive_count > 1
                 /\ (\/ ~s.publishing_enabled
                     \/ (s.publishing_enabled /\ ~p.notifications_available))
         THEN LET s1 == start_publishing_timer(s, overflow_checks)
              IN  UpdateStateResult(
                      Unless(s1, [s1 EXCEPT !.current_keep_alive_count =
                                                s1.current_keep_alive_count - 1]),
                      "KeepAlive16", "None")
         ELSE IF /\ ~p.publishing_req_queued
                 /\ (\/ s.current_keep_alive_count = 1
                     \/ (/\ s.current_keep_alive_count > 1
                         /\ s.publishing_enabled
                         /\ p.notifications_available))
         THEN LET s1 == start_publishing_timer(s, overflow_checks)
              IN  UpdateStateResult(Unless(s1, [s1 EXCEPT !.state = "Late"]),
                                    "KeepAlive17", "None")
         ELSE UpdateStateResult(s, "None0", "None")
    ELSE UpdateStateResult(s, "None0", "None")

\* The match on self.state.
update_state_match(s, tick_reason, p, overflow_checks) ==
    LET r == CASE s.state = "Closed" -> update_state_Closed(s)
               [] s.state = "Creating" -> update_state_Creating(s)
               [] s.state = "Normal" -> update_state_Normal(s, tick_reason, p, overflow_checks)
               [] s.state = "Late" -> update_state_Late(s, tick_reason, p, overflow_checks)
               [] s.state = "KeepAlive" ->
                    update_state_KeepAlive(s, tick_reason, p, overflow_checks)
    IN  IF r.sub.panicked THEN UpdateStatePanic(r.sub) ELSE r

\* A variant of update_state without the check of its arguments.
update_state_unchecked(s, tick_reason, p, overflow_checks) ==
    update_state_match(s, tick_reason, p, overflow_checks)

\* Returns the subscription after the call, the state-table row that handled it
\* and the action tick has to take; panics when it is given both triggers.  A row whose start_publishing_timer panicked
\* yields panicked.
update_state(s, tick_reason, p, overflow_checks) ==
    IF tick_reason = "ReceivedPublishRequest" /\ p.publishing_interval_elapsed
    THEN UpdateStatePanic(s)
    ELSE update_state_match(s, tick_reason, p, overflow_checks)

(***************************************************************************)
(* Monitored items (subscriptions/monitored_item.rs).  An item is           *)
(* [monitored_item_id, queue_size, notification_queue]; a notification is   *)
(* [monitored_item_id, value].                                              *)
(***************************************************************************)
\* Values a sampled node can take.
Values == {"v"}

\* The outcome of one sampling: a changed value, or NoChange.
NoChange == "NoChange"

Notification(monitored_item_id, value) ==
    [monitored_item_id |-> monitored_item_id, value |-> value]

\* MonitoredItem::new: an item with an empty queue, or the error of a request
\* that is not valid.
MonitoredItem_new(monitored_item_id, item_to_create) ==
    IF item_to_create.valid
    THEN [ok |-> TRUE,
          item |-> [monitored_item_id |-> monitored_item_id,
                    queue_size |-> item_to_create.queue_size,
                    notification_queue |-> <<>>]]
    ELSE [ok |-> FALSE, item |-> <<>>]

\* Appends a notification; a full queue drops its oldest entry.
enqueue_notification_message(item, notification) ==
    LET q == item.notification_queue
        kept == IF Len(q) >= item.queue_size THEN Tail(q) ELSE q
    IN  [item EXCEPT !.notification_queue = Append(kept, notification)]

\* MonitoredItem::tick: a changed value is queued; resend_data queues the
\* value read whether it changed or not (sample is then the value read).
MonitoredItem_tick(item, sample, resend_data) ==
    IF sample # NoChange
    THEN enqueue_notification_message(item, Notification(item.monitored_item_id, sample))
    ELSE item

\* The samples one tick can take of the items in ids.
Samples(ids, resend_data) ==
    [ids -> IF resend_data THEN Values ELSE Values \cup {NoChange}]

\* MonitoredItem::all_notification_messages: the drained queue (<<>> for None).
all_notification_messages(item) ==
    [messages |-> item.notification_queue,
     item |-> [item EXCEPT !.notification_queue = <<>>]]

\* MonitoredItem::modify: a valid request revises queue_size; the queue keeps
\* its newest queue_size entries.
MonitoredItem_modify(item, item_to_modify) ==
    IF item_to_modify.valid
    THEN LET q == item.notification_queue
             n == item_to_modify.queue_size
         IN  [ok |-> TRUE,
              item |-> [item EXCEPT !.queue_size = n,
                                    !.notification_queue =
                                        IF Len(q) > n THEN SubSeq(q, Len(q) - n + 1, Len(q)) ELSE q]]
    ELSE [ok |-> FALSE, item |-> item]

(***************************************************************************)
(* tick_monitored_items and tick.                                          *)
(***************************************************************************)
\* A variant of advance_sequence_number that wraps like a plain u32 increment.
advance_sequence_number_to_zero(n) == IF n = MAX_U32 THEN 0 ELSE n + 1

\* The advance of next_sequence_number.
advance_sequence_number(n) == IF n = MAX_U32 THEN 1 ELSE n + 1

\* A variant of take_notifications that copies the pending notifications and
\* leaves them in the queue.
take_notifications_leaving_queue(item, publishing_interval_elapsed) ==
    [messages |-> IF publishing_interval_elapsed THEN item.notification_queue ELSE <<>>,
     item |-> item]

\* A variant of take_notifications that takes the pending notifications at
\* every tick, whether the publishing interval elapsed or not.
take_notifications_always(item, publishing_interval_elapsed) ==
    all_notification_messages(item)

\* What the loop of tick_monitored_items takes from one item after ticking it:
\* all its pending notifications when the publishing interval elapsed.
take_notifications(item, publishing_interval_elapsed) ==
    IF publishing_interval_elapsed
    THEN all_notification_messages(item)
    ELSE [messages |-> <<>>, item |-> item]

\* Ticks every item, in the iteration order of the map (order), and takes
\* the pending notifications of each when the publishing interval elapsed.
\* notification is the DataChange built from them, or NoMessage.
tick_monitored_items(s, publishing_interval_elapsed, resend_data, samples, order) ==
    LET ticked == [id \in DOMAIN s.monitored_items |->
                      MonitoredItem_tick(s.monitored_items[id], samples[id], resend_data)]
        taken == [id \in DOMAIN s.monitored_items |->
                     take_notifications(ticked[id], publishing_interval_elapsed)]
        items == [id \in DOMAIN s.monitored_items |-> taken[id].item]
        notification_messages == Flatten([i \in 1..Len(order) |-> taken[order[i]].messages])
        s1 == [s EXCEPT !.monitored_items = items]
    IN  IF notification_messages # <<>>
        THEN [sub |-> [s1 EXCEPT !.next_sequence_number =
                                     advance_sequence_number(s.next_sequence_number)],
              notification |-> data_change(s.next_sequence_number, notification_messages),
              more_notifications |-> FALSE]
        ELSE [sub |-> s1, notification |-> NoMessage, more_notifications |-> FALSE]

\* What tick returns and leaves behind: the subscription, the returned message
\* (NoMessage for None) and, for inspection, the values tick computed on the way.
TickResult(sub, message, publishing_interval_elapsed, notification, handled_state, update_state_action) ==
    [sub |-> sub, message |-> message,
     publishing_interval_elapsed |-> publishing_interval_elapsed,
     notifications_available |-> notification.kind # "None",
     notification |-> notification,
     notification_sequence_number |-> notification.sequence_number,
     handled_state |-> handled_state,
     update_state_action |-> update_state_action]

\* A variant of discard_notification that forgets the rollback.
discard_notification_without_rollback(s, notification) == s

\* The rollback of the None and ReturnKeepAlive arms.
discard_notification(s, notification) ==
    IF notification.kind # "None"
    THEN [s EXCEPT !.next_sequence_number = notification.sequence_number]
    ELSE s

\* A variant of return_keep_alive that returns the DataChange it was to
\* discard, when there is one.
return_keep_alive_returning_notification(s, notification) ==
    IF notification.kind # "None"
    THEN [sub |-> s, message |-> notification]
    ELSE [sub |-> s, message |-> keep_alive(s.next_sequence_number)]

\* A variant of return_keep_alive whose keep-alive consumes the number it
\* carries.
return_keep_alive_consuming(s, notification) ==
    LET s2 == discard_notification(s, notification)
    IN  [sub |-> [s2 EXCEPT !.next_sequence_number = IF @ = MAX_U32 THEN 1 ELSE @ + 1],
         message |-> keep_alive(s2.next_sequence_number)]

\* The ReturnKeepAlive arm: the rollback, then a keep-alive that carries
\* next_sequence_number and leaves it alone.
return_keep_alive(s, notification) ==
    LET s2 == discard_notification(s, notification)
    IN  [sub |-> s2, message |-> keep_alive(s2.next_sequence_number)]

\* A variant of check_lifetime_expired that closes the subscription when the
\* counter has run out.
check_lifetime_expired_at_zero(s) ==
    IF s.current_lifetime_count = 0 THEN [s EXCEPT !.state = "Closed"] ELSE s

\* A variant of check_lifetime_expired that forgets to close the subscription.
check_lifetime_expired_never(s) == s

\* The end of tick: a lifetime counter of 1 closes the subscription.
check_lifetime_expired(s) ==
    IF s.current_lifetime_count = 1 THEN [s EXCEPT !.state = "Closed"] ELSE s

\* A variant of interval_elapsed that reads the timer on a tick of either
\* reason.
interval_elapsed_for_any_reason(s, tick_reason, since_now) ==
    s.state = "Creating" \/ since_now >= s.publishing_interval

\* A variant of interval_elapsed that takes every timer tick for an expiry.
interval_elapsed_always(s, tick_reason, since_now) ==
    tick_reason # "ReceivedPublishRequest"

\* The first statement of tick: whether the publishing interval has elapsed,
\* since_now being now - last_timer_expired_time.
interval_elapsed(s, tick_reason, since_now) ==
    IF tick_reason = "ReceivedPublishRequest" THEN FALSE
    ELSE IF s.state = "Creating" THEN TRUE
    ELSE since_now >= s.publishing_interval

\* tick, called duration time units after the previous call.
tick(s, tick_reason, publishing_req_queued, duration, samples, order, overflow_checks) ==
    LET since_now == Min(s.since_timer_expired + duration, MaxInterval)
        timed == tick_reason = "TickTimerFired" /\ s.state # "Creating"
        publishing_interval_elapsed == interval_elapsed(s, tick_reason, since_now)
        s0 == [s EXCEPT !.since_timer_expired =
                            IF timed /\ publishing_interval_elapsed THEN 0 ELSE since_now]
        ticked == IF s.state \in {"Closed", "Creating"}
                  THEN [sub |-> s0, notification |-> NoMessage, more_notifications |-> FALSE]
                  ELSE tick_monitored_items(s0, publishing_interval_elapsed, s.resend_data,
                                            samples, order)
        s1 == [ticked.sub EXCEPT !.resend_data = FALSE]
        notifications_available == ticked.notification.kind # "None"
        r == update_state(s1, tick_reason,
                          SubscriptionStateParams(notifications_available,
                                                  ticked.more_notifications,
                                                  publishing_req_queued,
                                                  publishing_interval_elapsed),
                          overflow_checks)
    IN  IF timed /\ s.publishing_interval <= 0
        THEN TickResult([s EXCEPT !.panicked = TRUE], NoMessage, FALSE, NoMessage,
                        "None0", "None")
        ELSE IF notifications_available \/ publishing_interval_elapsed \/ publishing_req_queued
        THEN IF r.panicked
             THEN TickResult([r.sub EXCEPT !.panicked = TRUE], NoMessage,
                             publishing_interval_elapsed, ticked.notification,
                             r.handled_state, r.update_state_action)
             ELSE CASE r.update_state_action = "None" ->
                         TickResult(check_lifetime_expired(
                                        discard_notification(r.sub, ticked.notification)),
                                    NoMessage, publishing_interval_elapsed,
                                    ticked.notification, r.handled_state, "None")
                    [] r.update_state_action = "ReturnKeepAlive" ->
                         LET ka == return_keep_alive(r.sub, ticked.notification)
                         IN  TickResult(check_lifetime_expired(ka.sub), ka.message,
                                        publishing_interval_elapsed, ticked.notification,
                                        r.handled_state, "ReturnKeepAlive")
                    [] r.update_state_action = "ReturnNotifications" ->
                         TickResult(check_lifetime_expired(r.sub), ticked.notification,
                                    publishing_interval_elapsed, ticked.notification,
                                    r.handled_state, "ReturnNotifications")
        ELSE TickResult(check_lifetime_expired(s1), NoMessage, publishing_interval_elapsed,
                        ticked.notification, "NotCalled", "None")

(***************************************************************************)
(* The monitored-item services of the subscription.                        *)
(***************************************************************************)
Put(f, k, v) == [x \in DOMAIN f \cup {k} |-> IF x = k THEN v ELSE f[x]]

\* A variant of Remove that leaves the entry in the map.
Remove_nothing(f, k) == f

Remove(f, k) == [x \in DOMAIN f \ {k} |-> f[x]]

\* The closure create_monitored_items maps over items_to_create.
RECURSIVE create_each(_, _)
create_each(s, items_to_create) ==
    IF items_to_create = <<>> THEN [sub |-> s, results |-> <<>>]
    ELSE LET monitored_item_id == s.next_monitored_item_id
             created == MonitoredItem_new(monitored_item_id, Head(items_to_create))
             s1 == IF created.ok
                   THEN [s EXCEPT !.monitored_items = Put(@, monitored_item_id, created.item),
                                  !.next_monitored_item_id = @ + 1]
                   ELSE s
             result == IF created.ok
                       THEN [status_code |-> "Good",
                             monitored_item_id |-> monitored_item_id,
                             revised_queue_size |-> created.item.queue_size]
                       ELSE [status_code |-> "BadMonitoredItemFilterInvalid",
                             monitored_item_id |-> 0,
                             revised_queue_size |-> 0]
             rest == create_each(s1, Tail(items_to_create))
         IN  [sub |-> rest.sub, results |-> <<result>> \o rest.results]

\* A variant of create_monitored_items that leaves next_monitored_item_id as
\* it was before the call.
create_monitored_items_without_counting(s, items_to_create) ==
    LET r == create_each(reset_lifetime_counter(s), items_to_create)
    IN  [r EXCEPT !.sub.next_monitored_item_id = s.next_monitored_item_id]

create_monitored_items(s, items_to_create) ==
    create_each(reset_lifetime_counter(s), items_to_create)

\* The closure modify_monitored_items maps over items_to_modify.
RECURSIVE modify_each(_, _)
modify_each(s, items_to_modify) ==
    IF items_to_modify = <<>> THEN [sub |-> s, results |-> <<>>]
    ELSE LET item_to_modify == Head(items_to_modify)
             id == item_to_modify.monitored_item_id
             found == id \in DOMAIN s.monitored_items
             modified == MonitoredItem_modify(s.monitored_items[id], item_to_modify)
             s1 == IF found
                   THEN [s EXCEPT !.monitored_items = Put(@, id, modified.item)]
                   ELSE s
             result == IF found
                       THEN IF modified.ok
                            THEN [status_code |-> "Good",
                                  revised_queue_size |-> modified.item.queue_size]
                            ELSE [status_code |-> "BadMonitoredItemFilterInvalid",
                                  revised_queue_size |-> 0]
                       ELSE [status_code |-> "BadMonitoredItemIdInvalid",
                             revised_queue_size |-> 0]
             rest == modify_each(s1, Tail(items_to_modify))
         IN  [sub |-> rest.sub, results |-> <<result>> \o rest.results]

\* A variant of modify_monitored_items that does not reset the lifetime
\* counter.
modify_monitored_items_without_reset(s, items_to_modify) ==
    modify_each(s, items_to_modify)

modify_monitored_items(s, items_to_modify) ==
    modify_each(reset_lifetime_counter(s), items_to_modify)

\* The closure delete_monitored_items maps over items_to_delete.
RECURSIVE delete_each(_, _)
delete_each(s, items_to_delete) ==
    IF items_to_delete = <<>> THEN [sub |-> s, results |-> <<>>]
    ELSE LET id == Head(items_to_delete)
             found == id \in DOMAIN s.monitored_items
             s1 == IF found THEN [s EXCEPT !.monitored_items = Remove(@, id)] ELSE s
             rest == delete_each(s1, Tail(items_to_delete))
         IN  [sub |-> rest.sub,
              results |-> <<IF found THEN "Good" ELSE "BadMonitoredItemIdInvalid">>
                              \o rest.results]

\* A variant of delete_monitored_items that answers like it and empties the
\* queues of the items it names, but leaves the items in the map.
delete_monitored_items_emptying_queue(s, items_to_delete) ==
    LET r == delete_each(reset_lifetime_counter(s), items_to_delete)
    IN  [r EXCEPT !.sub.monitored_items =
                      [id \in DOMAIN s.monitored_items |->
                          IF id \in DOMAIN @ THEN @[id]
                          ELSE [s.monitored_items[id] EXCEPT !.notification_queue = <<>>]]]

\* A variant of delete_monitored_items that looks every id up in the items of
\* before the call.
delete_monitored_items_from_snapshot(s, items_to_delete) ==
    LET s0 == reset_lifetime_counter(s)
        found(k) == items_to_delete[k] \in DOMAIN s0.monitored_items
    IN  [sub |-> [s0 EXCEPT !.monitored_items =
                     [id \in DOMAIN @ \ {items_to_delete[k] : k \in 1..Len(items_to_delete)}
                         |-> @[id]]],
         results |-> [k \in 1..Len(items_to_delete) |->
                         IF found(k) THEN "Good" ELSE "BadMonitoredItemIdInvalid"]]

delete_monitored_items(s, items_to_delete) ==
    delete_each(reset_lifetime_counter(s), items_to_delete)

set_resend_data(s) == [s EXCEPT !.resend_data = TRUE]

\* SetPublishingMode on this subscription (subscriptions.rs).
set_publishing_mode(s, publishing_enabled) ==
    [reset_lifetime_counter(s) EXCEPT !.publishing_enabled = publishing_enabled]

\* Subscription::new.
Subscription_new(publishing_enabled, publishing_interval, lifetime_count, keep_alive_count) ==
    [publishing_interval |-> publishing_interval,
     max_lifetime_count |-> lifetime_count,
     max_keep_alive_count |-> keep_alive_count,
     monitored_items |-> <<>>,
     state |-> "Creating",
     current_lifetime_count |-> lifetime_count,
     current_keep_alive_count |-> keep_alive_count,
     message_sent |-> FALSE,
     publishing_enabled |-> publishing_enabled,
     resend_data |-> FALSE,
     next_sequence_number |-> 1,
     next_monitored_item_id |-> 1,
     since_timer_expired |-> 0,
     panicked |-> FALSE]

(***************************************************************************)
(* The browse continuation points of a session (server/src/session.rs).    *)
(* A continuation point is [id, address_space_version]; the session is     *)
(* [max_browse_continuation_points, browse_continuation_points], the       *)
(* latter the VecDeque as a sequence, oldest first.  The address space is  *)
(* its version counter.                                                    *)
(***************************************************************************)
\* Option<T>: Some(x) and None.
Some(x) == <<x>>

None == <<>>

BrowseContinuationPoint(id, address_space_version) ==
    [id |-> id, address_space_version |-> address_space_version]

\* BrowseContinuationPoint::is_valid_browse_continuation_point: the address
\* space has not changed since the continuation point was made.
is_valid_browse_continuation_point(continuation_point, address_space) ==
    continuation_point.address_space_version = address_space

\* Session::new, as far as the continuation points go.
Session_new(max_browse_continuation_points) ==
    [max_browse_continuation_points |-> max_browse_continuation_points,
     browse_continuation_points |-> <<>>,
     subscriptions |-> {},
     terminated |-> FALSE,
     terminated_at |-> 0]

\* Session::set_terminated, called at the time now.
set_terminated(session, now) ==
    [session EXCEPT !.terminated = TRUE, !.terminated_at = now]

\* The CreateSubscription service puts a subscription into the subscriptions
\* of the session (subscriptions.rs).
insert_subscription(session, subscription_id) ==
    [session EXCEPT !.subscriptions = @ \cup {subscription_id}]

\* LAST_SESSION_ID: an i32 behind a mutex; locked_by is the thread that holds
\* the lock (0: none).
LAST_SESSION_ID_new == [value |-> 0, locked_by |-> 0]

\* A variant of can_lock that lets every thread in.
can_lock_always(mutex) == TRUE

\* trace_lock_unwrap!: a thread gets the lock when no thread holds it.
can_lock(mutex) == mutex.locked_by = 0

\* next_session_id, statement by statement: the lock is taken, the counter is
\* incremented, the id is made of the counter and the guard is dropped.
next_session_id_lock(mutex, thread) == [mutex EXCEPT !.locked_by = thread]

next_session_id_increment(mutex) == [mutex EXCEPT !.value = @ + 1]

next_session_id_return(mutex, thread) ==
    [session_id |-> mutex.value,
     mutex |-> [mutex EXCEPT !.locked_by = IF @ = thread THEN 0 ELSE @]]

\* A variant of remove_excess that lets the queue grow to one entry above the
\* maximum.
remove_excess_above(browse_continuation_points, max_browse_continuation_points) ==
    IF Len(browse_continuation_points) > max_browse_continuation_points
    THEN Tail(browse_continuation_points)
    ELSE browse_continuation_points

\* The loop of add_browse_continuation_point: pop_front while the queue holds
\* max_browse_continuation_points entries or more.  (With a maximum of 0 the
\* loop of the source never ends; the model has no session with maximum 0.)
RECURSIVE remove_excess(_, _)
remove_excess(browse_continuation_points, max_browse_continuation_points) ==
    IF /\ Len(browse_continuation_points) >= max_browse_continuation_points
       /\ browse_continuation_points # <<>>
    THEN remove_excess(Tail(browse_continuation_points), max_browse_continuation_points)
    ELSE browse_continuation_points

add_browse_continuation_point(session, continuation_point) ==
    [session EXCEPT !.browse_continuation_points =
        Append(remove_excess(@, session.max_browse_continuation_points), continuation_point)]

\* A variant of find_browse_continuation_point that takes the entry it finds
\* out of the queue.
find_browse_continuation_point_taking(session, id) ==
    LET matching == SelectSeq(session.browse_continuation_points, LAMBDA cp : cp.id = id)
    IN  [result |-> IF matching # <<>> THEN Some(Head(matching)) ELSE None,
         session |-> [session EXCEPT !.browse_continuation_points =
                         SelectSeq(@, LAMBDA cp : cp.id # id)]]

\* The first entry with the id, cloned, or None; the session is borrowed
\* immutably and is left as it was.
find_browse_continuation_point(session, id) ==
    LET matching == SelectSeq(session.browse_continuation_points, LAMBDA cp : cp.id = id)
    IN  [result |-> IF matching # <<>> THEN Some(Head(matching)) ELSE None,
         session |-> session]

remove_expired_browse_continuation_points(session, address_space) ==
    [session EXCEPT !.browse_continuation_points =
        SelectSeq(@, LAMBDA cp : is_valid_browse_continuation_point(cp, address_space))]

remove_browse_continuation_point(session, continuation_point_id) ==
    [session EXCEPT !.browse_continuation_points =
        SelectSeq(@, LAMBDA cp : cp.id # continuation_point_id)]

\* A variant of remove_browse_continuation_points that removes the first id of
\* the list only.
remove_browse_continuation_points_first_only(session, continuation_points) ==
    IF continuation_points = <<>> THEN session
    ELSE remove_browse_continuation_point(session, Head(continuation_points))

remove_browse_continuation_points(session, continuation_points) ==
    LET continuation_points_set == {continuation_points[k] : k \in 1..Len(continuation_points)}
    IN  [session EXCEPT !.browse_continuation_points =
            SelectSeq(@, LAMBDA cp : cp.id \notin continuation_points_set)]

(***************************************************************************)
(* The state machine.                                                      *)
(***************************************************************************)
VARIABLES
    \* The Subscription.  since_timer_expired stands for last_timer_expired_time:
    \* the time from it to the `now` of the latest tick, capped at MaxInterval
    \* (tick reads the two only through that difference).  panicked: a call
    \* panicked, and the fields are as the panic left them.
    subscription,
    \* The latest call on the subscription (op: "new", "tick", or "service"
    \* for any other call) and, for a tick, its arguments, whether it built a
    \* DataChange, the message it returned and the state-table row that handled
    \* it.
    last,
    \* What the subscription has emitted so far (see History).
    history,
    \* The Session, as far as its browse continuation points go.
    session,
    \* The version counter of the address space.
    address_space,
    \* The latest call on the continuation points of the session: its name,
    \* the ids it was given and its result: for find what it returned, for add
    \* and the removals the entries that left the queue.
    session_call,
    \* The static LAST_SESSION_ID.
    LAST_SESSION_ID,
    \* Where each thread is in next_session_id ("idle": not in it).
    threads,
    \* The session ids next_session_id has returned, in the order it made them.
    session_ids

subscriptionVars == <<subscription, last, history>>

sessionIdVars == <<LAST_SESSION_ID, threads, session_ids>>

sessionVars == <<session, address_space, session_call, sessionIdVars>>

vars == <<subscriptionVars, sessionVars>>

SessionCall(op, ids, result) == [op |-> op, ids |-> ids, result |-> result]

Call(op, tick_reason, publishing_req_queued, r) ==
    [op |-> op, tick_reason |-> tick_reason,
     publishing_req_queued |-> publishing_req_queued,
     publishing_interval_elapsed |-> r.publishing_interval_elapsed,
     notifications_available |-> r.notifications_available,
     message |-> r.message,
     handled_state |-> r.handled_state]

\* A call that is no tick returns no message.
NoTick == TickResult(<<>>, NoMessage, FALSE, NoMessage, "NotCalled", "None")

\* latest_data_change: the sequence number of the latest DataChange message
\*   tick returned (0: none).
\* keep_alive_sent: the sequence number of the latest keep-alive returned since
\*   the latest DataChange (0: none).
\* keep_alive_discarded: that keep-alive was returned by a tick that had built
\*   a DataChange and discarded it.
\* rolled_back: the sequence number of the latest DataChange built and
\*   discarded since the latest DataChange returned (0: none).
\* idle: every call so far was a tick with no publish request queued.
\* expirations: while idle, the number of ticks that found the publishing
\*   interval elapsed in a state other than Creating and Closed (0 when not
\*   idle).
\* timer_expired: some tick so far has found the publishing interval elapsed
\*   (publishing_interval_elapsed of tick, true on a timer tick in Creating).
History(latest_data_change, keep_alive_sent, keep_alive_discarded, rolled_back, idle, expirations, timer_expired) ==
    [latest_data_change |-> latest_data_change,
     keep_alive_sent |-> keep_alive_sent,
     keep_alive_discarded |-> keep_alive_discarded,
     rolled_back |-> rolled_back,
     idle |-> idle,
     expirations |-> expirations,
     timer_expired |-> timer_expired]

HistoryAfterTick(h, s, i, r) ==
    LET idle == h.idle /\ ~i.publishing_req_queued
        expirations ==
            IF ~idle THEN 0
            ELSE IF r.publishing_interval_elapsed /\ s.state \notin {"Creating", "Closed"}
            THEN Min(h.expirations + 1, MaxLifetime + 1)
            ELSE h.expirations
        timer_expired == h.timer_expired \/ r.publishing_interval_elapsed
    IN  IF r.sub.panicked
        THEN [h EXCEPT !.idle = idle, !.expirations = expirations,
                       !.timer_expired = timer_expired]
        ELSE IF r.message.kind = "DataChange"
        THEN History(r.message.sequence_number, 0, FALSE, 0, idle, expirations,
                     timer_expired)
        ELSE History(h.latest_data_change,
                     IF r.message.kind = "KeepAlive"
                     THEN r.message.sequence_number ELSE h.keep_alive_sent,
                     IF r.message.kind = "KeepAlive"
                     THEN r.notifications_available ELSE h.keep_alive_discarded,
                     IF r.notifications_available
                     THEN r.notification_sequence_number ELSE h.rolled_back,
                     idle, expirations, timer_expired)

HistoryAfterService(h) == [h EXCEPT !.idle = FALSE, !.expirations = 0]

Requests(Request) == UNION {[1..n -> Request] : n \in 0..MaxBatch}

\* A request that is not valid is rejected whatever else it asks for.
CreateRequest ==
    {r \in [valid : BOOLEAN, queue_size : 1..MaxQueue] : ~r.valid => r.queue_size = 1}

ModifyRequest ==
    {r \in [monitored_item_id : 1..MaxItemId, valid : BOOLEAN, queue_size : 1..MaxQueue] :
        ~r.valid => r.queue_size = 1}

\* The builds that differ on this subscription: with and without overflow
\* checks when a u32 subtraction can overflow.
OverflowChecks(s) == IF s.current_lifetime_count = 0 THEN BOOLEAN ELSE {TRUE}

\* What one call of tick on s can be given and can meet: the arguments, the
\* time since the previous call, what the items sample, the iteration order of
\* the item map, and the build.
TickInputs(s) ==
    [tick_reason : TickReason,
     publishing_req_queued : BOOLEAN,
     duration : 0..MaxInterval,
     samples : Samples(DOMAIN s.monitored_items, s.resend_data),
     order : Orders(DOMAIN s.monitored_items),
     overflow_checks : OverflowChecks(s)]

TickOn(s, i) ==
    tick(s, i.tick_reason, i.publishing_req_queued, i.duration, i.samples, i.order,
         i.overflow_checks)

\* The arguments update_state can be given by a caller other than tick.
UpdateStateInputs(s) ==
    [tick_reason : TickReason,
     p : [notifications_available : BOOLEAN, more_notifications : BOOLEAN,
          publishing_req_queued : BOOLEAN, publishing_interval_elapsed : BOOLEAN],
     overflow_checks : OverflowChecks(s)]

UpdateStateOn(s, i) == update_state(s, i.tick_reason, i.p, i.overflow_checks)

\* No session was made yet.
InitSessionIds ==
    /\ LAST_SESSION_ID = LAST_SESSION_ID_new
    /\ threads = [thread \in 1..Threads |-> "idle"]
    /\ session_ids = <<>>

\* A subscription as the CreateSubscription service makes it: the publishing
\* interval revised to at least the server's minimum, the counts positive.
InitWith(PublishingIntervals) ==
    /\ \E publishing_enabled \in BOOLEAN, publishing_interval \in PublishingIntervals,
          lifetime_count \in 1..MaxLifetime, keep_alive_count \in 1..MaxKeepAlive :
           subscription = Subscription_new(publishing_enabled, publishing_interval,
                                           lifetime_count, keep_alive_count)
    /\ last = Call("new", "None", FALSE, NoTick)
    /\ history = History(0, 0, FALSE, 0, TRUE, 0, FALSE)
    /\ session = Session_new(1)
    /\ address_space = 0
    /\ session_call = SessionCall("new", <<>>, None)
    /\ InitSessionIds

Init == InitWith(1..MaxInterval)

\* A call of tick with inputs drawn from inputs.
TickFrom(inputs) ==
    /\ ~subscription.panicked
    /\ \E i \in inputs :
           LET r == TickOn(subscription, i)
           IN  /\ subscription' = r.sub
               /\ last' = Call("tick", i.tick_reason, i.publishing_req_queued, r)
               /\ history' = HistoryAfterTick(history, subscription, i, r)
    /\ UNCHANGED sessionVars

Tick == TickFrom(TickInputs(subscription))

CreateMonitoredItems ==
    /\ ~subscription.panicked
    /\ \E items_to_create \in Requests(CreateRequest) :
           /\ subscription.next_monitored_item_id + Len(items_to_create) <= MaxItemId + 1
           /\ LET r == create_monitored_items(subscription, items_to_create)
              IN  /\ subscription' = r.sub
                  /\ last' = Call("service", "None", FALSE, NoTick)
    /\ history' = HistoryAfterService(history)
    /\ UNCHANGED sessionVars

ModifyMonitoredItems ==
    /\ ~subscription.panicked
    /\ \E items_to_modify \in Requests(ModifyRequest) :
           LET r == modify_monitored_items(subscription, items_to_modify)
           IN  /\ subscription' = r.sub
               /\ last' = Call("service", "None", FALSE, NoTick)
    /\ history' = HistoryAfterService(history)
    /\ UNCHANGED sessionVars

DeleteMonitoredItems ==
    /\ ~subscription.panicked
    /\ \E items_to_delete \in Requests(1..MaxItemId) :
           LET r == delete_monitored_items(subscription, items_to_delete)
           IN  /\ subscription' = r.sub
               /\ last' = Call("service", "None", FALSE, NoTick)
    /\ history' = HistoryAfterService(history)
    /\ UNCHANGED sessionVars

SetResendData ==
    /\ ~subscription.panicked
    /\ subscription' = set_resend_data(subscription)
    /\ last' = Call("service", "None", FALSE, NoTick)
    /\ history' = HistoryAfterService(history)
    /\ UNCHANGED sessionVars

SetPublishingMode ==
    /\ ~subscription.panicked
    /\ \E publishing_enabled \in BOOLEAN :
           subscription' = set_publishing_mode(subscription, publishing_enabled)
    /\ last' = Call("service", "None", FALSE, NoTick)
    /\ history' = HistoryAfterService(history)
    /\ UNCHANGED sessionVars

Services ==
    \/ CreateMonitoredItems
    \/ ModifyMonitoredItems
    \/ DeleteMonitoredItems
    \/ SetResendData
    \/ SetPublishingMode

Next == Tick \/ Services

Spec == Init /\ [][Next]_vars

\* The behaviours in which a publish request is queued at every tick that
\* finds the publishing interval elapsed.
TickServed ==
    TickFrom({i \in TickInputs(subscription) :
                 TickOn(subscription, i).publishing_interval_elapsed
                     => i.publishing_req_queued})

NextServed == TickServed \/ Services

SpecServed == Init /\ [][NextServed]_vars

\* The behaviours in which no publish request is ever queued and no service
\* is called.  The tick timer keeps firing and time keeps passing: a tick
\* that finds the publishing interval elapsed is taken again and again.
TickIdle == TickFrom({i \in TickInputs(subscription) : ~i.publishing_req_queued})

TickIdleElapsed ==
    TickFrom({i \in TickInputs(subscription) :
                 /\ ~i.publishing_req_queued
                 /\ TickOn(subscription, i).publishing_interval_elapsed})

SpecIdle == Init /\ [][TickIdle]_vars /\ WF_vars(TickIdleElapsed)

(***************************************************************************)
(* The continuation points of one session, with a subscription that is     *)
(* left alone.                                                             *)
(***************************************************************************)
PointIds == 1..MaxPointId

\* The id lists remove_browse_continuation_points can be given.
PointIdBatches == UNION {[1..n -> PointIds] : n \in 0..MaxPointBatch}

\* The behaviours with callers that do not keep to the contract of the
\* subscription: the publishing interval was not revised and can be 0 or
\* negative, and update_state, which is public, is called with any arguments.
\* The subscription has no monitored items.
InitDirect == InitWith(-1..MaxInterval)

UpdateState ==
    /\ ~subscription.panicked
    /\ \E i \in UpdateStateInputs(subscription) :
           LET r == UpdateStateOn(subscription, i)
           IN  /\ subscription' = [r.sub EXCEPT !.panicked = r.panicked]
               /\ last' = Call("update_state", i.tick_reason, i.p.publishing_req_queued,
                               [publishing_interval_elapsed |-> i.p.publishing_interval_elapsed,
                                notifications_available |-> i.p.notifications_available,
                                message |-> NoMessage,
                                handled_state |-> r.handled_state])
    /\ history' = HistoryAfterService(history)
    /\ UNCHANGED sessionVars

NextDirect == Tick \/ UpdateState

SpecDirect == InitDirect /\ [][NextDirect]_vars

\* The entries of the queue before a call that are not in the queue after it
\* (the entries of one queue differ when ids are not reused; otherwise the
\* result names the entries that left at least once).
Left(before, after) ==
    SelectSeq(before.browse_continuation_points,
              LAMBDA cp : \A k \in 1..Len(after.browse_continuation_points) :
                             after.browse_continuation_points[k] # cp)

InitSession ==
    /\ subscription = Subscription_new(TRUE, 1, 1, 1)
    /\ last = Call("new", "None", FALSE, NoTick)
    /\ history = History(0, 0, FALSE, 0, TRUE, 0, FALSE)
    /\ \E max_browse_continuation_points \in 1..MaxPoints :
           session = Session_new(max_browse_continuation_points)
    /\ address_space = 0
    /\ session_call = SessionCall("new", <<>>, None)
    /\ InitSessionIds

\* The browse service adds a continuation point made against the address
\* space as it is.
AddBrowseContinuationPoint ==
    /\ \E id \in PointIds :
           /\ session' = add_browse_continuation_point(
                             session, BrowseContinuationPoint(id, address_space))
           /\ session_call' = SessionCall("add", <<id>>, Left(session, session'))
    /\ UNCHANGED <<address_space, subscriptionVars, sessionIdVars>>

FindBrowseContinuationPoint ==
    /\ \E id \in PointIds :
           LET r == find_browse_continuation_point(session, id)
           IN  /\ session' = r.session
               /\ session_call' = SessionCall("find", <<id>>, r.result)
    /\ UNCHANGED <<address_space, subscriptionVars, sessionIdVars>>

RemoveExpiredBrowseContinuationPoints ==
    /\ session' = remove_expired_browse_continuation_points(session, address_space)
    /\ session_call' = SessionCall("remove_expired", <<>>, Left(session, session'))
    /\ UNCHANGED <<address_space, subscriptionVars, sessionIdVars>>

RemoveBrowseContinuationPoint ==
    /\ \E id \in PointIds :
           /\ session' = remove_browse_continuation_point(session, id)
           /\ session_call' = SessionCall("remove", <<id>>, Left(session, session'))
    /\ UNCHANGED <<address_space, subscriptionVars, sessionIdVars>>

RemoveBrowseContinuationPoints ==
    /\ \E ids \in PointIdBatches :
           /\ session' = remove_browse_continuation_points(session, ids)
           /\ session_call' = SessionCall("remove_many", ids, Left(session, session'))
    /\ UNCHANGED <<address_space, subscriptionVars, sessionIdVars>>

\* A node is added to the address space, or changed: its version moves on.
ChangeAddressSpace ==
    /\ address_space < MaxVersion
    /\ address_space' = address_space + 1
    /\ session_call' = SessionCall("change", <<>>, None)
    /\ UNCHANGED <<session, subscriptionVars, sessionIdVars>>

NextSession ==
    \/ AddBrowseContinuationPoint
    \/ FindBrowseContinuationPoint
    \/ RemoveExpiredBrowseContinuationPoints
    \/ RemoveBrowseContinuationPoint
    \/ RemoveBrowseContinuationPoints
    \/ ChangeAddressSpace

SpecSession == InitSession /\ [][NextSession]_vars

\* The time of a call of set_terminated.
Times == 1..MaxTime

\* The sessions: one session with its subscriptions and its termination, and
\* the session ids the threads get for the sessions they make.
InitSessions ==
    /\ subscription = Subscription_new(TRUE, 1, 1, 1)
    /\ last = Call("new", "None", FALSE, NoTick)
    /\ history = History(0, 0, FALSE, 0, TRUE, 0, FALSE)
    /\ session = Session_new(1)
    /\ address_space = 0
    /\ session_call = SessionCall("new", <<>>, None)
    /\ InitSessionIds

InsertSubscription ==
    /\ \E subscription_id \in 1..MaxSubscriptions :
           /\ session' = insert_subscription(session, subscription_id)
           /\ session_call' = SessionCall("insert_subscription", <<subscription_id>>, None)
    /\ UNCHANGED <<address_space, subscriptionVars, sessionIdVars>>

SetTerminated ==
    /\ \E now \in Times :
           /\ now >= session.terminated_at
           /\ session' = set_terminated(session, now)
           /\ session_call' = SessionCall("set_terminated", <<now>>, None)
    /\ UNCHANGED <<address_space, subscriptionVars, sessionIdVars>>

\* A thread enters next_session_id and takes the lock.
NextSessionIdLock(thread) ==
    /\ threads[thread] = "idle"
    /\ LAST_SESSION_ID.value < MaxSessions
    /\ can_lock(LAST_SESSION_ID)
    /\ LAST_SESSION_ID' = next_session_id_lock(LAST_SESSION_ID, thread)
    /\ threads' = [threads EXCEPT ![thread] = "locked"]
    /\ UNCHANGED <<session_ids, session, address_space, session_call, subscriptionVars>>

NextSessionIdIncrement(thread) ==
    /\ threads[thread] = "locked"
    /\ LAST_SESSION_ID' = next_session_id_increment(LAST_SESSION_ID)
    /\ threads' = [threads EXCEPT ![thread] = "incremented"]
    /\ UNCHANGED <<session_ids, session, address_space, session_call, subscriptionVars>>

NextSessionIdReturn(thread) ==
    /\ threads[thread] = "incremented"
    /\ LET r == next_session_id_return(LAST_SESSION_ID, thread)
       IN  /\ LAST_SESSION_ID' = r.mutex
           /\ session_ids' = Append(session_ids, r.session_id)
    /\ threads' = [threads EXCEPT ![thread] = "idle"]
    /\ UNCHANGED <<session, address_space, session_call, subscriptionVars>>

NextSessionId ==
    \E thread \in 1..Threads :
       \/ NextSessionIdLock(thread)
       \/ NextSessionIdIncrement(thread)
       \/ NextSessionIdReturn(thread)

NextSessions ==
    \/ InsertSubscription
    \/ SetTerminated
    \/ NextSessionId

SpecSessions == InitSessions /\ [][NextSessions]_vars

TypeOK ==
    /\ subscription.state \in SubscriptionState
    /\ subscription.current_lifetime_count \in 0..MAX_U32
    /\ subscription.next_sequence_number \in 0..MAX_U32
    /\ last.message.kind \in {"None", "DataChange", "KeepAlive"}

(***************************************************************************)
(* Properties.                                                             *)
(***************************************************************************)
\* P holds of every call of tick the subscription can take from the current
\* state, i its inputs and r what it returns and leaves behind.
EveryTick(P(_, _)) ==
    ~subscription.panicked =>
        \A i \in TickInputs(subscription) : P(i, TickOn(subscription, i))

\* The sequence number that follows n (n = 0: no number yet).
NextNumber(n) == IF n = MAX_U32 THEN 1 ELSE n + 1

\* C1: the sequence numbers of the DataChange messages tick returns start at 1
\* and each is the previous one plus 1, except that MAX_U32 is followed by 1;
\* no message tick returns, DataChange or keep-alive, carries number 0.
C1_SequenceNumbers ==
    EveryTick(LAMBDA i, r :
        /\ r.message.kind = "DataChange" =>
               r.message.sequence_number = NextNumber(history.latest_data_change)
        /\ r.message.kind # "None" => r.message.sequence_number \in 1..MAX_U32)

\* C1 witness: a DataChange numbered MAX_U32 was returned and the advance
\* wrapped, so that the next DataChange is the one after the wrap.
C1_Witness ==
    /\ last.op = "tick"
    /\ last.message.kind = "DataChange"
    /\ last.message.sequence_number = MAX_U32
    /\ subscription.next_sequence_number = 1
    /\ \E i \in TickInputs(subscription) :
           TickOn(subscription, i).message.kind = "DataChange"

\* C2: a tick that returns a keep-alive returns it with next_sequence_number
\* as it was before the tick and leaves next_sequence_number at that value,
\* and the next DataChange returned carries the number of the keep-alive, also
\* when the keep-alive tick had collected notifications.
C2_KeepAliveConsumesNoNumber ==
    /\ EveryTick(LAMBDA i, r :
           r.message.kind = "KeepAlive" =>
               /\ r.message.sequence_number = subscription.next_sequence_number
               /\ r.sub.next_sequence_number = subscription.next_sequence_number)
    /\ history.keep_alive_sent # 0 =>
           EveryTick(LAMBDA i, r :
               r.message.kind = "DataChange" =>
                   r.message.sequence_number = history.keep_alive_sent)

\* C2 witness: a tick collected notifications and returned a keep-alive, no
\* DataChange was returned since, and the next tick can return one.
C2_Witness ==
    /\ history.keep_alive_sent # 0
    /\ history.keep_alive_discarded
    /\ \E i \in TickInputs(subscription) :
           TickOn(subscription, i).message.kind = "DataChange"

\* C3: when a tick builds a DataChange numbered n and update_state answers
\* None or ReturnKeepAlive, next_sequence_number is n after the tick, also for
\* n = MAX_U32, and the next DataChange returned carries n.
C3_Rollback ==
    /\ EveryTick(LAMBDA i, r :
           /\ r.notifications_available
           /\ r.update_state_action \in {"None", "ReturnKeepAlive"}
           /\ ~r.sub.panicked
           => r.sub.next_sequence_number = r.notification_sequence_number)
    /\ history.rolled_back # 0 =>
           EveryTick(LAMBDA i, r :
               r.message.kind = "DataChange" =>
                   r.message.sequence_number = history.rolled_back)

\* C3 witness: a tick built the DataChange numbered MAX_U32 and discarded it,
\* the advance having wrapped to 1; no DataChange was returned since, and the
\* next tick can return one.
C3_Witness ==
    /\ history.rolled_back = MAX_U32
    /\ subscription.next_sequence_number = MAX_U32
    /\ \E i \in TickInputs(subscription) :
           TickOn(subscription, i).message.kind = "DataChange"

\* The FIFO of item id when tick collects it: what it held before the tick and
\* what the tick's own sampling queued.
PendingAtCollection(s, i, id) ==
    MonitoredItem_tick(s.monitored_items[id], i.samples[id], s.resend_data).notification_queue

NormalWithoutRequest(s, i, r) ==
    /\ s.state = "Normal"
    /\ s.publishing_enabled
    /\ \E id \in DOMAIN s.monitored_items : s.monitored_items[id].notification_queue # <<>>
    /\ i.tick_reason = "TickTimerFired"
    /\ ~i.publishing_req_queued
    /\ r.publishing_interval_elapsed

\* C5 as stated: that tick moves the subscription to Late, returns no message,
\* leaves next_sequence_number unchanged and decrements current_lifetime_count
\* by exactly 1 (stated of the subscriptions whose max_lifetime_count is at
\* least 3 x max_keep_alive_count).
C5_NormalToLate ==
    EveryTick(LAMBDA i, r :
        /\ NormalWithoutRequest(subscription, i, r)
        /\ subscription.max_lifetime_count >= 3 * subscription.max_keep_alive_count
        => /\ r.sub.state = "Late"
           /\ r.message.kind = "None"
           /\ r.sub.next_sequence_number = subscription.next_sequence_number
           /\ r.sub.current_lifetime_count = subscription.current_lifetime_count - 1)

\* C5 amended: that tick returns no message, leaves next_sequence_number
\* unchanged, decrements current_lifetime_count by exactly 1, and moves the
\* subscription to Late unless the counter has come down to 1; then the tick
\* closes the subscription.
C5_NormalToLateOrClosed ==
    EveryTick(LAMBDA i, r :
        NormalWithoutRequest(subscription, i, r)
        => /\ r.sub.state = IF subscription.current_lifetime_count = 2
                            THEN "Closed" ELSE "Late"
           /\ r.message.kind = "None"
           /\ r.sub.next_sequence_number = subscription.next_sequence_number
           /\ r.sub.current_lifetime_count = subscription.current_lifetime_count - 1)

\* C5 witness: row #8 discarded the notifications of a subscription with
\* publishing enabled and left it in Late.
C5_Witness ==
    /\ last.op = "tick"
    /\ last.handled_state = "IntervalElapsed8"
    /\ last.notifications_available
    /\ ~last.publishing_req_queued
    /\ last.message.kind = "None"
    /\ subscription.publishing_enabled
    /\ subscription.state = "Late"
    /\ history.rolled_back = subscription.next_sequence_number

\* C6: after the subscription went Normal -> Late because notifications were
\* available at an interval tick with no publish request queued, the next tick
\* with reason ReceivedPublishRequest (request queued, publishing enabled)
\* returns a DataChange with the sequence number that was rolled back, and
\* the state returns to Normal.
C6_LateRecovery ==
    /\ last.op = "tick"
    /\ last.handled_state = "IntervalElapsed8"
    /\ last.notifications_available
    /\ subscription.state = "Late"
    /\ subscription.publishing_enabled
    => EveryTick(LAMBDA i, r :
           i.tick_reason = "ReceivedPublishRequest" /\ i.publishing_req_queued
           => /\ r.message.kind = "DataChange"
              /\ r.message.sequence_number = history.rolled_back
              /\ r.sub.state = "Normal")

\* The case of C7: state KeepAlive, publishing enabled, and an interval-elapsed
\* tick with a publish request queued and no notifications available.
KeepAliveWithRequest(s, i, r) ==
    /\ s.state = "KeepAlive"
    /\ s.publishing_enabled
    /\ i.tick_reason = "TickTimerFired"
    /\ i.publishing_req_queued
    /\ r.publishing_interval_elapsed
    /\ ~r.notifications_available

\* C7: in that case the tick decrements current_keep_alive_count by 1 while it
\* is greater than 1, and at 1 returns a keep-alive that carries
\* next_sequence_number and resets the counter to max_keep_alive_count.
C7_KeepAliveCadence ==
    EveryTick(LAMBDA i, r :
        KeepAliveWithRequest(subscription, i, r)
        => IF subscription.current_keep_alive_count > 1
           THEN r.sub.current_keep_alive_count = subscription.current_keep_alive_count - 1
           ELSE /\ r.message.kind = "KeepAlive"
                /\ r.message.sequence_number = subscription.next_sequence_number
                /\ r.sub.current_keep_alive_count = subscription.max_keep_alive_count)

\* The case of C8: a fresh subscription with publishing enabled, and its first
\* tick, TickTimerFired one publishing interval after the creation with a
\* publish request queued.
FirstTick(s, i) ==
    /\ s.state = "Creating"
    /\ s.publishing_enabled
    /\ s.monitored_items = <<>>
    /\ s.current_lifetime_count = s.max_lifetime_count
    /\ s.current_keep_alive_count = s.max_keep_alive_count
    /\ i.tick_reason = "TickTimerFired"
    /\ i.publishing_req_queued
    /\ i.duration = s.publishing_interval

\* C8 as stated: the first tick leaves the state at KeepAlive,
\* current_lifetime_count one below max_lifetime_count (29 of 30),
\* current_keep_alive_count at max_keep_alive_count, and returns no message.
C8_FirstTickToKeepAlive ==
    last.op = "new" =>
        EveryTick(LAMBDA i, r :
            FirstTick(subscription, i)
            => /\ r.sub.state = "KeepAlive"
               /\ r.sub.current_lifetime_count = subscription.max_lifetime_count - 1
               /\ r.sub.current_keep_alive_count = subscription.max_keep_alive_count
               /\ r.message.kind = "None")

\* The subscription of C8 and its first tick.
FreshSubscription == Subscription_new(TRUE, 100, 30, 3)

FreshFirstTick == tick(FreshSubscription, "TickTimerFired", TRUE, 100, <<>>, <<>>, TRUE)

\* C8 amended: the first tick takes the state Creating -> Normal and no
\* further, leaves current_lifetime_count at max_lifetime_count (30 of 30),
\* current_keep_alive_count at max_keep_alive_count and message_sent false,
\* and returns no message (max_lifetime_count at least 2: at 1 the tick closes
\* the subscription).
C8_FirstTickToNormal ==
    /\ last.op = "new" =>
           EveryTick(LAMBDA i, r :
               FirstTick(subscription, i)
               => /\ r.sub.state = IF subscription.max_lifetime_count = 1
                                   THEN "Closed" ELSE "Normal"
                  /\ r.sub.current_lifetime_count = subscription.max_lifetime_count
                  /\ r.sub.current_keep_alive_count = subscription.max_keep_alive_count
                  /\ ~r.sub.message_sent
                  /\ r.message.kind = "None")
    /\ FreshFirstTick.sub.state = "Normal"
    /\ FreshFirstTick.sub.current_lifetime_count = 30
    /\ FreshFirstTick.sub.current_keep_alive_count = 3
    /\ FreshFirstTick.message.kind = "None"

\* C8 witness: the first tick of a fresh subscription, with a publish request
\* queued, left it in Normal with both counters at their maxima.
C8_Witness ==
    /\ last.op = "tick"
    /\ last.handled_state = "Create3"
    /\ last.tick_reason = "TickTimerFired"
    /\ last.publishing_req_queued
    /\ last.message.kind = "None"
    /\ subscription.publishing_enabled
    /\ subscription.state = "Normal"
    /\ subscription.current_lifetime_count = subscription.max_lifetime_count
    /\ subscription.current_keep_alive_count = subscription.max_keep_alive_count

\* C9: for a subscription with max_keep_alive_count >= 1 and max_lifetime_count
\* >= 3 x max_keep_alive_count, if a publish request is queued at every
\* interval-elapsed tick (SpecServed), the subscription never reaches Closed.
C9_ServedNeverClosed ==
    /\ subscription.max_keep_alive_count >= 1
    /\ subscription.max_lifetime_count >= 3 * subscription.max_keep_alive_count
    => subscription.state # "Closed"

\* C10: if no publish request is ever queued and no service is called
\* (SpecIdle), a subscription with max_lifetime_count = L >= 2 is Closed from
\* the (L - 1)-th interval-elapsed tick after the tick that took it out of
\* Creating, not at any earlier tick, and that tick eventually comes.
C10_Expiry ==
    /\ [](history.idle /\ subscription.max_lifetime_count >= 2
          => /\ history.expirations <= subscription.max_lifetime_count - 1
             /\ subscription.state = "Closed"
                    <=> history.expirations = subscription.max_lifetime_count - 1)
    /\ <>(subscription.max_lifetime_count >= 2 => subscription.state = "Closed")

\* C10 witness: a subscription with max_lifetime_count 3 that saw no publish
\* request and no service is Closed after its second interval-elapsed tick out
\* of Creating.
C10_Witness ==
    /\ history.idle
    /\ subscription.max_lifetime_count = 3
    /\ history.expirations = 2
    /\ subscription.state = "Closed"
    /\ last.op = "tick"

\* The rows of the state table that call start_publishing_timer on the counter
\* as the tick found it (rows #6 and #7 reset it first).
TimerRows ==
    {"IntervalElapsed8", "IntervalElapsed9", "Late12", "KeepAlive15", "KeepAlive16",
     "KeepAlive17"}

\* C11: the lifetime decrement never underflows: start_publishing_timer is
\* only executed with current_lifetime_count > 0 (no tick panics on it or
\* wraps it), and current_lifetime_count > 0 in every reachable state whose
\* state is not Closed.
C11_NoUnderflow ==
    /\ ~subscription.panicked
    /\ subscription.state # "Closed" => subscription.current_lifetime_count > 0
    /\ EveryTick(LAMBDA i, r :
           /\ ~r.sub.panicked
           /\ r.handled_state \in TimerRows =>
                  /\ subscription.current_lifetime_count > 0
                  /\ r.sub.current_lifetime_count = subscription.current_lifetime_count - 1
           /\ r.handled_state \in {"IntervalElapsed6", "IntervalElapsed7"} =>
                  /\ subscription.max_lifetime_count > 0
                  /\ r.sub.current_lifetime_count = subscription.max_lifetime_count - 1)

\* C11 witness: row #12 took the counter of a Late subscription from 2 to 1,
\* the least value a decrement leaves, and the tick closed the subscription.
C11_Witness ==
    /\ last.op = "tick"
    /\ last.handled_state = "Late12"
    /\ subscription.current_lifetime_count = 1
    /\ subscription.state = "Closed"

\* The subscription after any one call of a service on s.
ServiceResults(s) ==
    {create_monitored_items(s, items).sub : items \in Requests(CreateRequest)}
    \cup {modify_monitored_items(s, items).sub : items \in Requests(ModifyRequest)}
    \cup {delete_monitored_items(s, ids).sub : ids \in Requests(1..MaxItemId)}
    \cup {set_resend_data(s)}
    \cup {set_publishing_mode(s, enabled) : enabled \in BOOLEAN}

\* C12: once the state is Closed, no tick (either reason) and no service call
\* changes it, and every tick returns no message.
C12_ClosedAbsorbing ==
    subscription.state = "Closed" =>
        /\ EveryTick(LAMBDA i, r : r.sub.state = "Closed" /\ r.message.kind = "None")
        /\ \A s2 \in ServiceResults(subscription) : s2.state = "Closed"

\* C12 witness: a tick with a publish request queued ran on a closed
\* subscription (row #1), returned nothing and left it Closed.
C12_Witness ==
    /\ last.op = "tick"
    /\ last.handled_state = "Closed1"
    /\ last.publishing_req_queued
    /\ last.message.kind = "None"
    /\ subscription.state = "Closed"

\* C13: once message_sent is true it stays true over every tick and service
\* call on a subscription that is not Closed, and it is true after every tick
\* that returned a DataChange or a keep-alive.
C13_MessageSentMonotone ==
    /\ EveryTick(LAMBDA i, r :
           /\ subscription.message_sent /\ subscription.state # "Closed"
              => r.sub.message_sent
           /\ r.message.kind # "None" => r.sub.message_sent)
    /\ subscription.message_sent /\ subscription.state # "Closed"
       => \A s2 \in ServiceResults(subscription) : s2.message_sent

\* C13 witness: row #11 returned the first message of the subscription, a
\* keep-alive, and message_sent is true.
C13_Witness ==
    /\ last.op = "tick"
    /\ last.handled_state = "Late11"
    /\ last.message.kind = "KeepAlive"
    /\ history.latest_data_change = 0
    /\ subscription.message_sent
    /\ subscription.state = "KeepAlive"

\* C14: tick returns a message, DataChange or keep-alive, only when it was
\* called with publishing_req_queued true (and one message at most: its
\* result is one optional message).
C14_EmissionNeedsRequest ==
    EveryTick(LAMBDA i, r :
        /\ r.message.kind \in {"None", "DataChange", "KeepAlive"}
        /\ r.message.kind # "None" => i.publishing_req_queued)

\* C14 witness: a tick called with a publish request queued returned a
\* DataChange from the state KeepAlive (row #14).
C14_Witness ==
    /\ last.op = "tick"
    /\ last.handled_state = "KeepAlive14"
    /\ last.publishing_req_queued
    /\ last.message.kind = "DataChange"

\* ---------------------------------------------------------------------------
\* The browse continuation points of a session.

\* The queue without the entries whose id is in ids, the others in the order
\* they had.
RECURSIVE Without(_, _)
Without(browse_continuation_points, ids) ==
    IF browse_continuation_points = <<>> THEN <<>>
    ELSE IF Head(browse_continuation_points).id \in ids
         THEN Without(Tail(browse_continuation_points), ids)
         ELSE <<Head(browse_continuation_points)>>
                  \o Without(Tail(browse_continuation_points), ids)

\* The example of the queue with a maximum of 2: cp1, cp2 and cp3 are added.
ThreeAdded ==
    add_browse_continuation_point(
        add_browse_continuation_point(
            add_browse_continuation_point(Session_new(2),
                                          BrowseContinuationPoint(1, 0)),
            BrowseContinuationPoint(2, 0)),
        BrowseContinuationPoint(3, 0))

\* C15: whatever the maximum (1 or more) and whatever was added, removed and
\* swept before, the queue never holds more entries than the maximum; an add
\* on a full queue drops exactly the oldest entry and puts the new one last,
\* an add on a queue with room drops nothing; with a maximum of 2, after cp1,
\* cp2 and cp3 were added cp1 is not found and cp2 and cp3 are.
C15_FifoBounded ==
    /\ Len(session.browse_continuation_points) <= session.max_browse_continuation_points
    /\ \A id \in PointIds :
          LET cp == BrowseContinuationPoint(id, address_space)
              full == Len(session.browse_continuation_points)
                          = session.max_browse_continuation_points
              added == add_browse_continuation_point(session, cp)
          IN  /\ added.max_browse_continuation_points
                     = session.max_browse_continuation_points
              /\ added.browse_continuation_points
                     = Append(IF full THEN Tail(session.browse_continuation_points)
                                      ELSE session.browse_continuation_points, cp)
    /\ find_browse_continuation_point(ThreeAdded, 1).result = None
    /\ find_browse_continuation_point(ThreeAdded, 2).result
           = Some(BrowseContinuationPoint(2, 0))
    /\ find_browse_continuation_point(ThreeAdded, 3).result
           = Some(BrowseContinuationPoint(3, 0))

\* An add on a full queue of two or more entries has dropped the oldest one,
\* which is not found any more, and its entry is the newest.
C15_Witness ==
    /\ session_call.op = "add"
    /\ Len(session_call.result) = 1
    /\ session.max_browse_continuation_points >= 2
    /\ Len(session.browse_continuation_points) = session.max_browse_continuation_points
    /\ find_browse_continuation_point(session, session_call.result[1].id).result = None
    /\ session.browse_continuation_points[Len(session.browse_continuation_points)].id
           = session_call.ids[1]

\* C16: find never returns a continuation point that is out of date: an entry
\* find returns was stored at the current version of the address space, also
\* when no sweep ran since the address space changed.
C16_FindNeverStale ==
    \A id \in PointIds :
       LET found == find_browse_continuation_point(session, id).result
       IN  found # None
              => is_valid_browse_continuation_point(found[1], address_space)

\* C17: after remove_browse_continuation_point(id) and after
\* remove_browse_continuation_points(ids) no removed id is found, and the
\* queue is the queue of before without the entries of the removed ids, the
\* other entries in the order they had.
C17_RemovedNotFound ==
    /\ \A id \in PointIds :
          LET removed == remove_browse_continuation_point(session, id)
          IN  /\ find_browse_continuation_point(removed, id).result = None
              /\ removed.browse_continuation_points
                     = Without(session.browse_continuation_points, {id})
    /\ \A ids \in PointIdBatches :
          LET removed == remove_browse_continuation_points(session, ids)
              S == {ids[k] : k \in 1..Len(ids)}
          IN  /\ \A id \in S : find_browse_continuation_point(removed, id).result = None
              /\ removed.browse_continuation_points
                     = Without(session.browse_continuation_points, S)

\* A removal of two ids took an entry out of the queue and left the two
\* other ones, and neither of the two ids is found.
C17_Witness ==
    /\ session_call.op = "remove_many"
    /\ Len(session_call.ids) = 2
    /\ session_call.ids[1] # session_call.ids[2]
    /\ Len(session_call.result) = 1
    /\ Len(session.browse_continuation_points) = 2
    /\ \A k \in 1..2 :
          find_browse_continuation_point(session, session_call.ids[k]).result = None

CreateBatches == UNION {[1..n -> CreateRequest] : n \in 0..2}

\* The number of valid requests among the first k of items_to_create.
ValidAmong(items_to_create, k) ==
    Cardinality({j \in 1..k : items_to_create[j].valid})

DeleteBatches == UNION {[1..n -> 1..MaxItemId] : n \in 0..2}

ModifyBatches == UNION {[1..n -> ModifyRequest] : n \in 0..2}

\* The ids in the item mapping when entry k of a delete call is handled: the
\* ids of before the call but the ones the earlier entries name.
IdsAtDelete(s, items_to_delete, k) ==
    DOMAIN s.monitored_items \ {items_to_delete[j] : j \in 1..(k - 1)}

\* C20: modify_monitored_items and delete_monitored_items return one result
\* for each entry, in the order of the entries.  The result of an entry is
\* BadMonitoredItemIdInvalid exactly when its id is not in the item mapping
\* when the entry is handled (for delete also an id an earlier entry of the
\* same call deleted); such an entry changes neither the mapping nor any item:
\* a call whose entries all fail leaves every item as it was, a delete removes
\* exactly the ids that were found, and a modify leaves the ids of the mapping
\* and every item it does not name as they were.
C20_InvalidIdsReported ==
    /\ \A items_to_delete \in DeleteBatches :
          LET r == delete_monitored_items(subscription, items_to_delete)
              entries == 1..Len(items_to_delete)
          IN  /\ Len(r.results) = Len(items_to_delete)
              /\ \A k \in entries :
                    r.results[k] =
                        IF items_to_delete[k]
                               \in IdsAtDelete(subscription, items_to_delete, k)
                        THEN "Good" ELSE "BadMonitoredItemIdInvalid"
              /\ DOMAIN r.sub.monitored_items
                     = DOMAIN subscription.monitored_items
                          \ {items_to_delete[k] : k \in entries}
              /\ \A id \in DOMAIN r.sub.monitored_items :
                    r.sub.monitored_items[id] = subscription.monitored_items[id]
              /\ (\A k \in entries : r.results[k] = "BadMonitoredItemIdInvalid")
                    => r.sub.monitored_items = subscription.monitored_items
    /\ \A items_to_modify \in ModifyBatches :
          LET r == modify_monitored_items(subscription, items_to_modify)
              entries == 1..Len(items_to_modify)
          IN  /\ Len(r.results) = Len(items_to_modify)
              /\ \A k \in entries :
                    (r.results[k].status_code = "BadMonitoredItemIdInvalid")
                        <=> (items_to_modify[k].monitored_item_id
                                 \notin DOMAIN subscription.monitored_items)
              /\ \A k \in entries :
                    (/\ items_to_modify[k].valid
                     /\ items_to_modify[k].monitored_item_id
                            \in DOMAIN subscription.monitored_items)
                        => /\ r.results[k].status_code = "Good"
                           /\ r.results[k].revised_queue_size
                                  = items_to_modify[k].queue_size
              /\ DOMAIN r.sub.monitored_items = DOMAIN subscription.monitored_items
              /\ \A id \in DOMAIN subscription.monitored_items :
                    (\A k \in entries : items_to_modify[k].monitored_item_id # id)
                        => r.sub.monitored_items[id] = subscription.monitored_items[id]
              /\ (\A k \in entries :
                     r.results[k].status_code = "BadMonitoredItemIdInvalid")
                    => r.sub.monitored_items = subscription.monitored_items

\* Two items are there, and a delete call that names the first one twice
\* answers Good and then BadMonitoredItemIdInvalid and leaves the second item
\* as it was.
C20_Witness ==
    /\ DOMAIN subscription.monitored_items = {1, 2}
    /\ LET r == delete_monitored_items(subscription, <<1, 1>>)
       IN  /\ r.results = <<"Good", "BadMonitoredItemIdInvalid">>
           /\ DOMAIN r.sub.monitored_items = {2}
           /\ r.sub.monitored_items[2] = subscription.monitored_items[2]

\* What create_monitored_items, modify_monitored_items and
\* delete_monitored_items can leave of s, for every batch of up to two entries.
ItemServiceResults(s) ==
    {create_monitored_items(s, items).sub : items \in CreateBatches}
    \cup {modify_monitored_items(s, items).sub : items \in ModifyBatches}
    \cup {delete_monitored_items(s, ids).sub : ids \in DeleteBatches}

\* C21: each call of create_monitored_items, modify_monitored_items and
\* delete_monitored_items, also one with no entry and one whose entries all
\* fail, leaves current_lifetime_count at max_lifetime_count and leaves state,
\* message_sent, publishing_enabled, current_keep_alive_count and
\* next_sequence_number as they were.
C21_ItemServicesResetLifetime ==
    \A s2 \in ItemServiceResults(subscription) :
       /\ s2.current_lifetime_count = subscription.max_lifetime_count
       /\ s2.max_lifetime_count = subscription.max_lifetime_count
       /\ s2.state = subscription.state
       /\ s2.message_sent = subscription.message_sent
       /\ s2.publishing_enabled = subscription.publishing_enabled
       /\ s2.current_keep_alive_count = subscription.current_keep_alive_count
       /\ s2.next_sequence_number = subscription.next_sequence_number

\* The lifetime counter has run down, and an empty create, a modify of
\* an id that is not there and an empty delete each put it back to the
\* maximum.
C21_Witness ==
    /\ subscription.state = "Late"
    /\ subscription.current_lifetime_count < subscription.max_lifetime_count
    /\ DOMAIN subscription.monitored_items = {}
    /\ create_monitored_items(subscription, <<>>).sub.current_lifetime_count
           = subscription.max_lifetime_count
    /\ LET r == modify_monitored_items(subscription,
                   <<[monitored_item_id |-> 1, valid |-> TRUE, queue_size |-> 1]>>)
       IN  /\ r.results[1].status_code = "BadMonitoredItemIdInvalid"
           /\ r.sub.current_lifetime_count = subscription.max_lifetime_count
    /\ delete_monitored_items(subscription, <<>>).sub.current_lifetime_count
           = subscription.max_lifetime_count

\* C22: creating one monitored item and then deleting it by the id the create
\* returned, with no tick in between, answers Good and leaves the subscription
\* as it was before the create (the same items, state, message_sent,
\* keep-alive counter, next_sequence_number and every other field) but for
\* next_monitored_item_id, which is one more, and the lifetime counter, which
\* is at its maximum.
C22_CreateDeleteRoundTrip ==
    \A item_to_create \in {r \in CreateRequest : r.valid} :
       LET created == create_monitored_items(subscription, <<item_to_create>>)
           monitored_item_id == created.results[1].monitored_item_id
           deleted == delete_monitored_items(created.sub, <<monitored_item_id>>)
       IN  /\ created.results[1].status_code = "Good"
           /\ monitored_item_id \in DOMAIN created.sub.monitored_items
           /\ deleted.results = <<"Good">>
           /\ deleted.sub =
                 [subscription EXCEPT
                     !.next_monitored_item_id = @ + 1,
                     !.current_lifetime_count = subscription.max_lifetime_count]

\* An item was created and deleted on a running subscription that has another
\* item: the other item is there, the counter is past both and the lifetime
\* counter is at its maximum.
C22_Witness ==
    /\ last.op = "service"
    /\ subscription.state = "Normal"
    /\ DOMAIN subscription.monitored_items = {1}
    /\ subscription.next_monitored_item_id = 3
    /\ subscription.current_lifetime_count = subscription.max_lifetime_count

\* The ids of the items deleted so far: ids are handed out in order and never
\* twice (C19), so they are the ids below next_monitored_item_id that are not
\* in the map.
Deleted(s) == (1..(s.next_monitored_item_id - 1)) \ DOMAIN s.monitored_items

\* The ids of the items a message has notifications of.
ItemsIn(message) ==
    {message.notifications[k].monitored_item_id : k \in 1..Len(message.notifications)}

\* C23: once delete_monitored_items answered Good for an id, no message a
\* later tick returns has a notification of that item, whatever the item had
\* pending and whatever was collected and rolled back before.  The id counts
\* as deleted from the Good answer on, no tick and no service call makes a
\* deleted id an id of the map again, and every tick returns notifications
\* only of items that are in the map when it is called.
C23_DeletedItemsSilent ==
    /\ \A items_to_delete \in DeleteBatches :
          LET r == delete_monitored_items(subscription, items_to_delete)
          IN  \A k \in 1..Len(items_to_delete) :
                 r.results[k] = "Good" => items_to_delete[k] \in Deleted(r.sub)
    /\ \A s2 \in ServiceResults(subscription) \cup ItemServiceResults(subscription) :
          Deleted(subscription) \subseteq Deleted(s2)
    /\ EveryTick(LAMBDA i, r :
          /\ Deleted(r.sub) = Deleted(subscription)
          /\ ItemsIn(r.message) \cap Deleted(subscription) = {}
          /\ ItemsIn(r.message) \subseteq DOMAIN subscription.monitored_items)

\* The first item was deleted, and a later tick returned a DataChange: its
\* notifications are of the second item only.
C23_Witness ==
    /\ last.op = "tick"
    /\ last.message.kind = "DataChange"
    /\ Deleted(subscription) = {1}
    /\ DOMAIN subscription.monitored_items = {2}
    /\ ItemsIn(last.message) = {2}

\* C24: a create, modify or delete request on a subscription whose state is
\* Closed is answered BadSubscriptionIdInvalid, and inserts, modifies and
\* removes no item.
C24_ClosedRejectsItemRequests ==
    subscription.state = "Closed" =>
        /\ \A items_to_create \in CreateBatches :
              LET r == create_monitored_items(subscription, items_to_create)
              IN  /\ \A k \in 1..Len(r.results) :
                        r.results[k].status_code = "BadSubscriptionIdInvalid"
                  /\ r.sub.monitored_items = subscription.monitored_items
        /\ \A items_to_modify \in ModifyBatches :
              LET r == modify_monitored_items(subscription, items_to_modify)
              IN  /\ \A k \in 1..Len(r.results) :
                        r.results[k].status_code = "BadSubscriptionIdInvalid"
                  /\ r.sub.monitored_items = subscription.monitored_items
        /\ \A items_to_delete \in DeleteBatches :
              LET r == delete_monitored_items(subscription, items_to_delete)
              IN  /\ \A k \in 1..Len(r.results) :
                        r.results[k] = "BadSubscriptionIdInvalid"
                  /\ r.sub.monitored_items = subscription.monitored_items

\* The tick of s that returned r has ticked the item id with resend_data =
\* true: the value it read is in the message the tick built or in the queue
\* of the item.
Resent(s, r, id) ==
    \/ id \in ItemsIn(r.notification)
    \/ r.sub.monitored_items[id].notification_queue # <<>>

\* C25: after set_resend_data() the next tick ticks every monitored item with
\* resend_data = true, so that the current value of every item is queued or
\* collected whether it changed or not, and resend_data is false after that
\* tick; no tick sets resend_data, so that without a new set_resend_data()
\* no later tick passes resend_data = true.
C25_ResendOnNextTick ==
    /\ set_resend_data(subscription).resend_data
    /\ EveryTick(LAMBDA i, r :
          ~r.sub.panicked =>
             /\ ~r.sub.resend_data
             /\ subscription.resend_data =>
                   \A id \in DOMAIN subscription.monitored_items :
                      Resent(subscription, r, id))

\* ---------------------------------------------------------------------------
\* The sessions.

\* C26: terminating a session sets terminated, sets terminated_at to the time
\* of the call and drops the subscriptions of the session, whose set is empty
\* afterwards; terminated never becomes false again.
C26_TerminateDropsSubscriptions ==
    [][/\ session_call'.op = "set_terminated"
          => /\ session'.terminated
             /\ session'.terminated_at = session_call'.ids[1]
             /\ session'.subscriptions = {}
       /\ session.terminated => session'.terminated]_vars

C28_BothTriggersPanic ==
    ~subscription.panicked =>
        \A i \in UpdateStateInputs(subscription) :
           (i.tick_reason = "ReceivedPublishRequest" /\ i.p.publishing_interval_elapsed)
               => /\ UpdateStateOn(subscription, i).panicked
                  /\ UpdateStateOn(subscription, i).sub = subscription

\* update_state was called with both on a subscription that keeps alive, and
\* panicked.
C28_Witness ==
    /\ last.op = "update_state"
    /\ last.tick_reason = "ReceivedPublishRequest"
    /\ last.publishing_interval_elapsed
    /\ subscription.state = "KeepAlive"
    /\ subscription.panicked

\* C29: every TickTimerFired tick on a subscription whose publishing_interval
\* is 0 or less panics, in every state of the subscription: it does not take
\* the interval as elapsed, returns no message and leaves every field as it
\* was.
C29_UnrevisedIntervalPanics ==
    subscription.publishing_interval <= 0 =>
        EveryTick(LAMBDA i, r :
            i.tick_reason = "TickTimerFired"
                => /\ r.sub.panicked
                   /\ ~r.publishing_interval_elapsed
                   /\ r.message.kind = "None"
                   /\ r.sub = [subscription EXCEPT !.panicked = TRUE])

\* ---------------------------------------------------------------------------
\* The state table.

\* One row of the state table: the state it leaves, its trigger, whether its
\* guard holds, the state it enters, what it emits and the values it gives
\* message_sent, current_lifetime_count and current_keep_alive_count.
Row(from, trigger, guard, sent, lifetime, ka_count, emit, to) ==
    [from |-> from, trigger |-> trigger, guard |-> guard, message_sent |-> sent,
     lifetime |-> lifetime, keep_alive |-> ka_count, emit |-> emit, to |-> to]

\* The rows of the state table, in the order of the table, for the
\* subscription s and the flags p.  "Reset lifetime" is max_lifetime_count,
\* "decrement lifetime" one less, "reset keep-alive" max_keep_alive_count.
StateTable(s, p) ==
    LET enabled == s.publishing_enabled
        sent == s.message_sent
        more == p.more_notifications
        notif_avail == p.notifications_available
        req_queued == p.publishing_req_queued
        ka_count == s.current_keep_alive_count
        lifetime == s.current_lifetime_count
    IN  << Row("Closed", "any", TRUE, sent, lifetime, ka_count, "None", "Closed"),
           Row("Creating", "any", TRUE, FALSE, lifetime, ka_count, "None", "Normal"),
           Row("Normal", "PublishReq", ~enabled \/ ~more,
               sent, lifetime, ka_count, "None", "Normal"),
           Row("Normal", "PublishReq", enabled /\ more,
               TRUE, s.max_lifetime_count, ka_count, "ReturnNotifications", "Normal"),
           Row("Normal", "IntervalElapsed", req_queued /\ enabled /\ notif_avail,
               TRUE, s.max_lifetime_count - 1, ka_count, "ReturnNotifications", "Normal"),
           Row("Normal", "IntervalElapsed",
               req_queued /\ ~sent /\ (~enabled \/ (enabled /\ ~notif_avail)),
               TRUE, s.max_lifetime_count - 1, ka_count, "ReturnKeepAlive", "Normal"),
           Row("Normal", "IntervalElapsed",
               ~req_queued /\ (~sent \/ (enabled /\ notif_avail)),
               sent, lifetime - 1, ka_count, "None", "Late"),
           Row("Normal", "IntervalElapsed",
               sent /\ (~enabled \/ (enabled /\ ~notif_avail)),
               sent, lifetime - 1, s.max_keep_alive_count, "None", "KeepAlive"),
           Row("Late", "PublishReq", enabled /\ (notif_avail \/ more),
               TRUE, s.max_lifetime_count, ka_count, "ReturnNotifications", "Normal"),
           Row("Late", "PublishReq", ~enabled \/ (enabled /\ ~notif_avail /\ ~more),
               TRUE, s.max_lifetime_count, ka_count, "ReturnKeepAlive", "KeepAlive"),
           Row("Late", "IntervalElapsed", TRUE,
               sent, lifetime - 1, ka_count, "None", "Late"),
           Row("KeepAlive", "PublishReq", TRUE,
               sent, lifetime, ka_count, "None", "KeepAlive"),
           Row("KeepAlive", "IntervalElapsed", enabled /\ notif_avail /\ req_queued,
               TRUE, lifetime, ka_count, "ReturnNotifications", "Normal"),
           Row("KeepAlive", "IntervalElapsed",
               req_queued /\ ka_count = 1 /\ (~enabled \/ (enabled /\ notif_avail)),
               sent, lifetime - 1, s.max_keep_alive_count, "ReturnKeepAlive", "KeepAlive"),
           Row("KeepAlive", "IntervalElapsed",
               ka_count > 1 /\ (~enabled \/ (enabled /\ ~notif_avail)),
               sent, lifetime - 1, ka_count - 1, "None", "KeepAlive"),
           Row("KeepAlive", "IntervalElapsed",
               ~req_queued /\ (ka_count = 1 \/ (ka_count > 1 /\ enabled /\ notif_avail)),
               sent, lifetime - 1, ka_count, "None", "Late") >>

\* The trigger of a call: the publish request, the elapsed interval, or none.
Trigger(tick_reason, p) ==
    IF tick_reason = "ReceivedPublishRequest" THEN "PublishReq"
    ELSE IF p.publishing_interval_elapsed THEN "IntervalElapsed"
    ELSE "NoTrigger"

\* The places in the table of the rows that match.
Matching(table, s, tick_reason, p) ==
    {k \in 1..Len(table) :
        /\ table[k].from = s.state
        /\ table[k].trigger \in {"any", Trigger(tick_reason, p)}
        /\ table[k].guard}

\* The first of the rows at the places in rows (rows is not empty).
FirstMatching(table, rows) ==
    table[CHOOSE k \in rows : \A j \in rows : k <= j]

\* C30: update_state refines the state table.  For every state, reason,
\* publishing_enabled, message_sent, current_keep_alive_count and flags,
\* a call that is given both triggers panics; any other call for which a row
\* of the table matches leaves the state, message_sent, current_lifetime_count
\* and current_keep_alive_count and returns the action of the first row that
\* matches, and changes nothing else; a call for which no row matches returns
\* None and changes nothing.
C30_RefinesStateTable ==
    ~subscription.panicked =>
        \A i \in UpdateStateInputs(subscription) :
           LET r == UpdateStateOn(subscription, i)
               table == StateTable(subscription, i.p)
               rows == Matching(table, subscription, i.tick_reason, i.p)
               row == FirstMatching(table, rows)
           IN  IF i.tick_reason = "ReceivedPublishRequest"
                  /\ i.p.publishing_interval_elapsed
               THEN r.panicked
               ELSE IF rows = {}
               THEN /\ ~r.panicked
                    /\ r.update_state_action = "None"
                    /\ r.sub = subscription
               ELSE /\ ~r.panicked
                    /\ r.update_state_action = row.emit
                    /\ r.sub = [subscription EXCEPT
                                   !.state = row.to,
                                   !.message_sent = row.message_sent,
                                   !.current_lifetime_count = row.lifetime,
                                   !.current_keep_alive_count = row.keep_alive]

\* A tick took the row of the keep-alive subscription that emits a keep-alive
\* when the keep-alive counter is 1 and a publish request is queued.
C30_Witness ==
    /\ last.op = "tick"
    /\ last.handled_state = "KeepAlive15"
    /\ last.message.kind = "KeepAlive"
    /\ subscription.state = "KeepAlive"
    /\ subscription.current_keep_alive_count = subscription.max_keep_alive_count

\* ---------------------------------------------------------------------------
\* The rows of update_state and what tick makes of them.

\* C31: the state table is total on live states.  For a subscription in
\* Normal, Late or KeepAlive whose keep-alive counter is between 1 and
\* max_keep_alive_count, every call of update_state with the reason
\* ReceivedPublishRequest or with publishing_interval_elapsed = true (and not
\* both, which panics) is handled by a numbered row: handled_state is not
\* None0.
C31_TableTotal ==
    (/\ ~subscription.panicked
     /\ subscription.state \in {"Normal", "Late", "KeepAlive"}
     /\ 1 <= subscription.current_keep_alive_count
     /\ subscription.current_keep_alive_count <= subscription.max_keep_alive_count)
        => \A i \in UpdateStateInputs(subscription) :
              (/\ i.tick_reason = "ReceivedPublishRequest" \/ i.p.publishing_interval_elapsed
               /\ ~(i.tick_reason = "ReceivedPublishRequest" /\ i.p.publishing_interval_elapsed))
                  => UpdateStateOn(subscription, i).handled_state # "None0"

\* C32: after every tick that returns, a lifetime counter of 1 means the
\* subscription is Closed, whatever the tick returned; and a tick that closes
\* a subscription leaves its lifetime counter at 1.
C32_ClosedAtOne ==
    EveryTick(LAMBDA i, r :
        ~r.sub.panicked =>
            /\ r.sub.current_lifetime_count = 1 => r.sub.state = "Closed"
            /\ (r.sub.state = "Closed" /\ subscription.state # "Closed")
                   => r.sub.current_lifetime_count = 1)

\* A tick has returned a message and closed the subscription, its lifetime
\* counter at 1.
C32_Witness ==
    /\ last.op = "tick"
    /\ last.message.kind # "None"
    /\ subscription.state = "Closed"
    /\ subscription.current_lifetime_count = 1

\* C33: a Late subscription answers the next publish request at once.  In
\* state Late with max_lifetime_count >= 2, every tick with reason
\* ReceivedPublishRequest and a publish request queued returns a DataChange or
\* a keep-alive, sets message_sent, resets current_lifetime_count to
\* max_lifetime_count and leaves Late: for Normal after a DataChange, for
\* KeepAlive after a keep-alive.
C33_LateAnswers ==
    EveryTick(LAMBDA i, r :
        (/\ subscription.state = "Late"
         /\ subscription.max_lifetime_count >= 2
         /\ i.tick_reason = "ReceivedPublishRequest"
         /\ i.publishing_req_queued)
            => /\ ~r.sub.panicked
               /\ r.message.kind \in {"DataChange", "KeepAlive"}
               /\ r.sub.message_sent
               /\ r.sub.current_lifetime_count = r.sub.max_lifetime_count
               /\ r.message.kind = "DataChange" => r.sub.state = "Normal"
               /\ r.message.kind = "KeepAlive" => r.sub.state = "KeepAlive")

\* A Late subscription whose lifetime counter had run down has just answered
\* a publish request.
C33_Witness ==
    /\ last.op = "tick"
    /\ last.tick_reason = "ReceivedPublishRequest"
    /\ last.publishing_req_queued
    /\ last.handled_state \in {"Late10", "Late11"}
    /\ last.message.kind \in {"DataChange", "KeepAlive"}
    /\ subscription.max_lifetime_count >= 2
    /\ subscription.current_lifetime_count = subscription.max_lifetime_count
    /\ subscription.message_sent
    /\ subscription.state \in {"Normal", "KeepAlive"}

\* C34: the first-expiry guarantee.  As long as no tick has found the
\* publishing timer expired, every tick that finds it expired with a publish
\* request queued returns a DataChange or a keep-alive.
C34_FirstExpiry ==
    EveryTick(LAMBDA i, r :
        (/\ ~history.timer_expired
         /\ i.publishing_req_queued
         /\ r.publishing_interval_elapsed
         /\ ~r.sub.panicked)
            => r.message.kind \in {"DataChange", "KeepAlive"})

\* What every tick from Creating leaves alone: no message is returned, no
\* monitored item is ticked, message_sent is false, and the two counters and
\* next_sequence_number are unchanged.
CreatingTickLeaves(s, r) ==
    /\ r.message.kind = "None"
    /\ r.sub.monitored_items = s.monitored_items
    /\ ~r.sub.message_sent
    /\ r.sub.current_lifetime_count = s.current_lifetime_count
    /\ r.sub.current_keep_alive_count = s.current_keep_alive_count
    /\ r.sub.next_sequence_number = s.next_sequence_number

\* The original statement of C35: from Creating, every tick, of either reason
\* and with or without a publish request queued, moves the subscription to
\* Normal and leaves the rest as CreatingTickLeaves says.
C35_CreatingToNormal ==
    EveryTick(LAMBDA i, r :
        subscription.state = "Creating"
            => /\ ~r.sub.panicked
               /\ r.sub.state = "Normal"
               /\ CreatingTickLeaves(subscription, r))

\* C35 (amended): from Creating, a tick moves the subscription to Normal when
\* it has a trigger (reason TickTimerFired, or a publish request queued) and
\* leaves it Creating when it has none, except that a lifetime counter of 1
\* ends either tick in Closed; every tick from Creating returns no message,
\* ticks no monitored item, leaves message_sent false and changes neither
\* counter nor next_sequence_number.
C35_FromCreating ==
    EveryTick(LAMBDA i, r :
        subscription.state = "Creating"
            => /\ ~r.sub.panicked
               /\ r.sub.state =
                      IF subscription.current_lifetime_count = 1 THEN "Closed"
                      ELSE IF i.tick_reason = "TickTimerFired" \/ i.publishing_req_queued
                      THEN "Normal"
                      ELSE "Creating"
               /\ CreatingTickLeaves(subscription, r))

\* A tick has taken a subscription with a monitored item from Creating to
\* Normal.
C35_Witness ==
    /\ last.op = "tick"
    /\ last.handled_state = "Create3"
    /\ subscription.state = "Normal"
    /\ subscription.monitored_items # <<>>
    /\ subscription.current_lifetime_count = subscription.max_lifetime_count

\* now - last_timer_expired_time at a tick that comes duration after the
\* previous call.
SinceTimerExpired(s, duration) == Min(s.since_timer_expired + duration, MaxInterval)

\* The two accounting rules of C36 for one tick.  On a TickTimerFired tick in
\* a state other than Creating the interval counts as elapsed iff
\* now - last_timer_expired_time >= publishing_interval, and
\* last_timer_expired_time becomes now exactly then; a ReceivedPublishRequest
\* tick never counts as elapsed and leaves last_timer_expired_time alone.
IntervalAccounting(s, i, r) ==
    LET since_now == SinceTimerExpired(s, i.duration)
    IN  /\ (i.tick_reason = "TickTimerFired" /\ s.state # "Creating")
               => /\ r.publishing_interval_elapsed <=> since_now >= s.publishing_interval
                  /\ r.sub.since_timer_expired =
                         IF since_now >= s.publishing_interval THEN 0 ELSE since_now
        /\ i.tick_reason = "ReceivedPublishRequest"
               => /\ ~r.publishing_interval_elapsed
                  /\ r.sub.since_timer_expired = since_now

\* The original statement of C36: the accounting rules, and any two ticks in
\* a row that both count as elapsed are at least publishing_interval apart.
C36_ElapsedTicksApart ==
    EveryTick(LAMBDA i, r :
        subscription.publishing_interval > 0
            => /\ IntervalAccounting(subscription, i, r)
               /\ (/\ last.op = "tick"
                   /\ last.publishing_interval_elapsed
                   /\ r.publishing_interval_elapsed)
                      => i.duration >= subscription.publishing_interval)

\* C36 (amended): the accounting rules, and any two ticks in a row that both
\* count as elapsed, the first of them in a state other than Creating, are at
\* least publishing_interval apart.
C36_IntervalAccounting ==
    EveryTick(LAMBDA i, r :
        subscription.publishing_interval > 0
            => /\ IntervalAccounting(subscription, i, r)
               /\ (/\ last.op = "tick"
                   /\ last.publishing_interval_elapsed
                   /\ last.handled_state # "Create3"
                   /\ r.publishing_interval_elapsed)
                      => i.duration >= subscription.publishing_interval)

\* A timer tick outside Creating and Closed has found the interval elapsed and
\* restarted the timer, on a subscription that has sent a message.
C36_Witness ==
    /\ last.op = "tick"
    /\ last.tick_reason = "TickTimerFired"
    /\ last.publishing_interval_elapsed
    /\ last.handled_state \notin {"Create3", "Closed1"}
    /\ subscription.since_timer_expired = 0
    /\ subscription.message_sent

\* The notifications pending in the queue of item id of s.
PendingOf(s, id) == s.monitored_items[id].notification_queue

\* C37: no notification is lost by a tick.  A tick that returns nothing or a
\* keep-alive leaves in every item's queue at least the notifications that
\* were pending there, and a tick that returns a DataChange takes from the
\* queues only notifications that are in that DataChange.
C37_NoNotificationLost ==
    EveryTick(LAMBDA i, r :
        ~r.sub.panicked =>
            \A id \in DOMAIN subscription.monitored_items :
                IF r.message.kind = "DataChange"
                THEN Len(PendingOf(r.sub, id)) < Len(PendingOf(subscription, id))
                         => \A k \in DOMAIN PendingOf(subscription, id) :
                                \E j \in DOMAIN r.message.notifications :
                                    r.message.notifications[j] = PendingOf(subscription, id)[k]
                ELSE Len(PendingOf(r.sub, id)) >= Len(PendingOf(subscription, id)))

\* C38: while publishing_enabled is false, no tick returns a DataChange,
\* whatever the state and the inputs: a disabled subscription returns
\* keep-alives or nothing.
C38_DisabledNoDataChange ==
    EveryTick(LAMBDA i, r :
        ~subscription.publishing_enabled
            => /\ r.message.kind \in {"None", "KeepAlive"}
               /\ ~r.sub.publishing_enabled)

\* A disabled subscription has built a DataChange from pending notifications
\* and returned a keep-alive instead.
C38_Witness ==
    /\ last.op = "tick"
    /\ ~subscription.publishing_enabled
    /\ last.notifications_available
    /\ last.message.kind = "KeepAlive"

\* C39: on a subscription with publishing_interval > 0 no tick panics, so none
\* reaches the panic of update_state for a publish request with the interval
\* elapsed, and every tick in which update_state answers ReturnNotifications
\* has built a DataChange and returns it.
C39_TickNeverPanics ==
    EveryTick(LAMBDA i, r :
        subscription.publishing_interval > 0
            => /\ ~r.sub.panicked
               /\ ~(i.tick_reason = "ReceivedPublishRequest" /\ r.publishing_interval_elapsed)
               /\ r.update_state_action = "ReturnNotifications"
                      => /\ r.notifications_available
                         /\ r.message.kind = "DataChange"
                         /\ r.message = r.notification)

\* A tick in which update_state answered ReturnNotifications has returned the
\* DataChange it had built.
C39_Witness ==
    /\ last.op = "tick"
    /\ subscription.publishing_interval > 0
    /\ last.handled_state \in {"Normal5", "IntervalElapsed6", "Late10", "KeepAlive14"}
    /\ last.notifications_available
    /\ last.message.kind = "DataChange"

====
